---- MODULE Spec2Model ----
(***************************************************************************)
(* Settings Manager of the HighLite plugin host                            *)
(* (src/src/managers/highlite/settingsManager.ts): reconciliation of the   *)
(* persisted settings record with the plugins' live settings, the store    *)
(* writes, and the user-driven write handlers of the settings panel.       *)
(***************************************************************************)
EXTENDS Integers, Sequences, FiniteSets, TLC

(***************************************************************************)
(* Values: boolean | number | string (PluginSettings.value).  A value is a *)
(* record so that values of different runtime types can be compared.       *)
(* t is the result of typeof, n the number (1/0 for a boolean), s the      *)
(* string; NaN is a number whose s is "NaN".                               *)
(***************************************************************************)
Bool(b) == [t |-> "boolean", n |-> IF b THEN 1 ELSE 0, s |-> ""]

Num(i) == [t |-> "number", n |-> i, s |-> ""]

NaN == [t |-> "number", n |-> 0, s |-> "NaN"]

Str(x) == [t |-> "string", n |-> 0, s |-> x]

\* The value of a field that was never assigned.
Undefined == [t |-> "undefined", n |-> 0, s |-> ""]

IsNaN(v) == v.t = "number" /\ v.s = "NaN"

\* JavaScript's  a < b  on numbers: false as soon as one side is NaN.
Less(a, b) == ~IsNaN(a) /\ ~IsNaN(b) /\ a.n < b.n

\* JavaScript truthiness of a value (false, 0, NaN and "" are falsy).
Truthy(v) ==
    CASE v.t = "boolean" -> v.n = 1
      [] v.t = "number" -> ~IsNaN(v) /\ v.n # 0
      [] OTHER -> v.s # ""

(***************************************************************************)
(* Bounds of the model.                                                    *)
(***************************************************************************)
\* registerPlugins is started at most MaxRuns times.
MaxRuns == 2

\* At most MaxPending store writes are in flight at once.
MaxPending == 2

\* At most MaxTimers tasks queued with setTimeout are waiting at once.
MaxTimers == 2

\* The search terms typed into the plugin list have at most MaxTermLen characters.
MaxTermLen == 3

\* How many times the game raises the event.
MaxPasses == 2

\* The highest count a plugin's callback keeps of its own calls.
MaxCalls == 2

\* How many calls of AddEntityAction and AddInventoryItemAction are followed.
MaxAdds == 4

\* The highest entity id of a player, and how many other players are in sight
\* at once.
MaxEntityId == 3

MaxPlayers == 2

\* How many NPCs there are.
MaxNpcs == 1

(***************************************************************************)
(* The registered plugins.  A setting's static part follows the            *)
(* PluginSettings interface: type, the constructor's value, validation     *)
(* (given by the set of candidates it rejects), min, max (NaN when the     *)
(* field is undefined: parseFloat("") in the range handler), and the       *)
(* choice list the combobox reads.  The callback is given by its effect on  *)
(* the hidden and disabled fields of the plugin's settings (effect), and    *)
(* dynamic tells whether the plugin's code writes the setting's hidden and  *)
(* disabled fields on its own (from a game hook).                           *)
(***************************************************************************)
SettingsTypes == {"checkbox", "range", "color", "text", "button", "combobox"}

\* A callback that touches no hidden or disabled field.
NoEffect == [k |-> "", field |-> "", raw |-> FALSE]

\* A callback that negates settings[k][field]: through this.settings[k] (the
\* proxy, once the settings are reactive) or, when raw, through a reference to
\* the setting object that the plugin kept from its constructor.
Negates(k, field, raw) == [k |-> k, field |-> field, raw |-> raw]

\* A callback that copies the value of its own setting into settings[k] and
\* counts its calls, up to MaxCalls and then from 0 again, in settings[t].
Tallies(k, t) == [k |-> k, field |-> "value", raw |-> FALSE, tally |-> t]

BaseSetting ==
    [type |-> "checkbox", value |-> Bool(TRUE),
     hasValidation |-> FALSE, rejects |-> {}, hasOnLoaded |-> FALSE,
     min |-> NaN, max |-> NaN, options |-> <<>>,
     effect |-> NoEffect, dynamic |-> FALSE]

EnableSetting(b) == [BaseSetting EXCEPT !.value = Bool(b)]

\* Registry 1: a bounded range with a validator, a checkbox with a validator.
Registry1 ==
    << [pluginName |-> "Alpha", keys |-> <<"enable", "vol">>,
        settings |-> ("enable" :> EnableSetting(TRUE)) @@
                     ("vol" :> [BaseSetting EXCEPT !.type = "range", !.value = Num(5),
                                   !.min = Num(0), !.max = Num(10),
                                   !.hasValidation = TRUE, !.rejects = {Num(7)}])],
       [pluginName |-> "Beta", keys |-> <<"enable", "chk">>,
        settings |-> ("enable" :> EnableSetting(FALSE)) @@
                     ("chk" :> [BaseSetting EXCEPT !.value = Bool(TRUE),
                                   !.hasValidation = TRUE, !.rejects = {Bool(FALSE)}])] >>

\* Registry 2: a single-choice setting with a validator, a text setting with one.
Registry2 ==
    << [pluginName |-> "Alpha", keys |-> <<"enable", "mode">>,
        settings |-> ("enable" :> EnableSetting(TRUE)) @@
                     ("mode" :> [BaseSetting EXCEPT !.type = "combobox", !.value = Str("a"),
                                    !.options = <<"a", "b">>,
                                    !.hasValidation = TRUE, !.rejects = {Str("b")}])],
       [pluginName |-> "Beta", keys |-> <<"enable", "note">>,
        settings |-> ("enable" :> EnableSetting(TRUE)) @@
                     ("note" :> [BaseSetting EXCEPT !.type = "text", !.value = Str(""),
                                    !.hasOnLoaded = TRUE,
                                    !.hasValidation = TRUE, !.rejects = {Str("bad")}])] >>

\* Registry 3: a color setting with a validator and a button whose validator
\* rejects the value it holds; a plugin that has only its enable setting, with
\* a validator.
Registry3 ==
    << [pluginName |-> "Alpha", keys |-> <<"enable", "tint", "go">>,
        settings |-> ("enable" :> EnableSetting(TRUE)) @@
                     ("tint" :> [BaseSetting EXCEPT !.type = "color", !.value = Str("#ff0000"),
                                    !.hasValidation = TRUE, !.rejects = {Str("#000000")}]) @@
                     ("go" :> [BaseSetting EXCEPT !.type = "button", !.value = Str(""),
                                  !.hasValidation = TRUE, !.rejects = {Str("")}])],
       [pluginName |-> "Beta", keys |-> <<"enable">>,
        settings |-> ("enable" :> [EnableSetting(FALSE) EXCEPT
                                      !.hasValidation = TRUE, !.rejects = {Bool(TRUE)}])] >>

Registries == <<Registry1, Registry2, Registry3>>

\* Registry 4: a plugin whose text setting's callback changes the disabled
\* field of its button setting, and whose button's callback changes the hidden
\* field of the text setting; its code also writes the button's fields on its own.
Registry4 ==
    << [pluginName |-> "Alpha", keys |-> <<"enable", "note", "dep">>,
        settings |-> ("enable" :> EnableSetting(TRUE)) @@
                     ("note" :> [BaseSetting EXCEPT !.type = "text", !.value = Str(""),
                                    !.effect = Negates("dep", "disabled", TRUE)]) @@
                     ("dep" :> [BaseSetting EXCEPT !.type = "button", !.value = Str(""),
                                   !.effect = Negates("note", "hidden", FALSE),
                                   !.dynamic = TRUE])] >>

\* Registry 5: the plugins of the plugin list's search, with their names and
\* authors as sequences of characters; they have only their enable setting.
Registry5 ==
    << [pluginName |-> "Nameplates", keys |-> <<"enable">>,
        settings |-> ("enable" :> EnableSetting(TRUE)),
        nameText |-> <<"N", "a", "m", "e", "p", "l", "a", "t", "e", "s">>,
        author |-> <<"a", "l", "i", "c", "e">>],
       [pluginName |-> "WikiLookup", keys |-> <<"enable">>,
        settings |-> ("enable" :> EnableSetting(TRUE)),
        nameText |-> <<"W", "i", "k", "i", "L", "o", "o", "k", "u", "p">>,
        author |-> <<"b", "o", "b">>] >>

\* Registry 6: a plugin with a single-choice setting whose default is not one
\* of its choices, and a setting whose type is none of SettingsTypes.
Registry6 ==
    << [pluginName |-> "Alpha", keys |-> <<"enable", "mode", "odd">>,
        settings |-> ("enable" :> EnableSetting(TRUE)) @@
                     ("mode" :> [BaseSetting EXCEPT !.type = "combobox", !.value = Str("z"),
                                    !.options = <<"a", "b">>]) @@
                     ("odd" :> [BaseSetting EXCEPT !.type = "gauge", !.value = Num(1)])] >>

\* Registry 7: a checkbox whose callback writes the values of two other
\* settings of its plugin.
Registry7 ==
    << [pluginName |-> "Alpha", keys |-> <<"enable", "chk", "copy", "count">>,
        settings |-> ("enable" :> EnableSetting(TRUE)) @@
                     ("chk" :> [BaseSetting EXCEPT !.effect = Tallies("copy", "count")]) @@
                     ("copy" :> [BaseSetting EXCEPT !.value = Bool(FALSE)]) @@
                     ("count" :> [BaseSetting EXCEPT !.type = "range", !.value = Num(0)])] >>

\* Registry 8: a plugin with a checkbox, a range, a text and a single-choice
\* setting.
Registry8 ==
    << [pluginName |-> "Alpha", keys |-> <<"enable", "chk", "vol", "note", "mode">>,
        settings |-> ("enable" :> EnableSetting(TRUE)) @@
                     ("chk" :> BaseSetting) @@
                     ("vol" :> [BaseSetting EXCEPT !.type = "range", !.value = Num(0)]) @@
                     ("note" :> [BaseSetting EXCEPT !.type = "text", !.value = Str("ok")]) @@
                     ("mode" :> [BaseSetting EXCEPT !.type = "combobox", !.value = Str("a"),
                                    !.options = <<"a", "b">>])] >>

\* Registry 9: two plugins that each have a setting with the key dep; the
\* code of the first writes the hidden and disabled fields of its own.
Registry9 ==
    << [pluginName |-> "Alpha", keys |-> <<"enable", "dep">>,
        settings |-> ("enable" :> EnableSetting(TRUE)) @@
                     ("dep" :> [BaseSetting EXCEPT !.type = "button", !.value = Str(""),
                                   !.dynamic = TRUE])],
       [pluginName |-> "Beta", keys |-> <<"enable", "dep">>,
        settings |-> ("enable" :> EnableSetting(TRUE)) @@
                     ("dep" :> [BaseSetting EXCEPT !.type = "text", !.value = Str("ok")])] >>

\* Registry 10: a plugin whose code disables and enables its checkbox and its
\* single-choice setting.
Registry10 ==
    << [pluginName |-> "Alpha", keys |-> <<"enable", "chk", "mode">>,
        settings |-> ("enable" :> EnableSetting(TRUE)) @@
                     ("chk" :> [BaseSetting EXCEPT !.dynamic = TRUE]) @@
                     ("mode" :> [BaseSetting EXCEPT !.type = "combobox", !.value = Str("a"),
                                    !.options = <<"a", "b">>, !.dynamic = TRUE])] >>

\* Registry 11: two plugins, the name of the first being the beginning of the
\* name of the second, each with a text setting of the key note.
Registry11 ==
    << [pluginName |-> "HP", keys |-> <<"enable", "note">>,
        settings |-> ("enable" :> EnableSetting(TRUE)) @@
                     ("note" :> [BaseSetting EXCEPT !.type = "text", !.value = Str("ok")]),
        nameText |-> <<"H", "P">>, author |-> <<"b", "o", "b">>],
       [pluginName |-> "HPX", keys |-> <<"enable", "note">>,
        settings |-> ("enable" :> EnableSetting(TRUE)) @@
                     ("note" :> [BaseSetting EXCEPT !.type = "text", !.value = Str("ok")]),
        nameText |-> <<"H", "P", "X">>, author |-> <<"b", "o", "b">>] >>

\* Every value document.highlite.plugins takes in this model.
AllRegistries ==
    Registries \o <<Registry4, Registry5, Registry6, Registry7, Registry8, Registry9,
                    Registry10, Registry11>>

(***************************************************************************)
(* State.                                                                  *)
(***************************************************************************)
VARIABLES
    cfg,               \* which registry document.highlite.plugins holds
    value,             \* value[i][k]: pluginList[i].settings[k].value
    databaseSettings,  \* the manager's in-memory copy of the user's record
    db,                \* the user's record in the 'settings' object store
    storeQueue,        \* requests the store has not served yet (puts, gets), oldest first
    regPc,             \* where registerPlugins stands: idle, get, put, done
    regIdx,            \* the plugin whose store write registerPlugins awaits
    runs,              \* how many times registerPlugins was started
    rows,              \* rows[i]: how many rows of plugin i have their enable toggle on, and off
    currentView,       \* 0: the plugin list; i: the detail view of plugin i; -1: none
    shown,             \* shown[k]: what the control of setting k in the detail view holds
    act,               \* the handler that ran last, its input and what it invoked
    lastDone,          \* values and record when registerPlugins last returned, while untouched
    flags,             \* flags[i][k]: the hidden and disabled fields of pluginList[i].settings[k]
    proxies,           \* proxies[i]: how many proxies wrap each non-enable setting of plugin i
    timers,            \* the tasks queued with setTimeout that have not run yet, oldest first
    ui,                \* ui[k]: style and disabled state of the row with key k in the open detail view
    listed,            \* listed[i]: the display states (TRUE for shown) of plugin i's rows in the list
    life,              \* the plugin loader's registry, the lifecycle calls made and the events dispatched
    menus,             \* the game's context menu action tables VA and QA, and the last call that added to them
    plates             \* the Nameplates plugin, and the entities of the game it draws

vars == <<cfg, value, databaseSettings, db, storeQueue, regPc, regIdx, runs,
          rows, currentView, shown, act, lastDone, flags, proxies, timers, ui, listed,
          life, menus, plates>>

\* The state of the settings manager and its panel.
managerVars == <<cfg, value, databaseSettings, db, storeQueue, regPc, regIdx, runs,
                 rows, currentView, shown, act, lastDone, flags, proxies, timers, ui,
                 listed>>

\* The state only the reactive fields, the timers, the rows' styles and the
\* search of the plugin list touch.
uiVars == <<flags, proxies, timers, ui, listed>>

pluginList == AllRegistries[cfg]

Plugins == DOMAIN pluginList

Keys(i) == DOMAIN pluginList[i].settings

Setting(i, k) == pluginList[i].settings[k]

\* A record of the store: has is FALSE for undefined (no record for the user).
NoRecord == [has |-> FALSE, rec |-> <<>>]

Record(r) == [has |-> TRUE, rec |-> r]

\* pluginList.find(p => p.pluginName === plugin): 0 when there is none.
FindPlugin(name) ==
    IF \E i \in Plugins : pluginList[i].pluginName = name
    THEN CHOOSE i \in Plugins :
            /\ pluginList[i].pluginName = name
            /\ \A j \in Plugins : pluginList[j].pluginName = name => i <= j
    ELSE 0

NoAct == [name |-> "none", p |-> 0, k |-> "", cand |-> Bool(FALSE), hooks |-> {}, put |-> FALSE]

Act(name, i, k, cand, hooks, put) ==
    [name |-> name, p |-> i, k |-> k, cand |-> cand, hooks |-> hooks, put |-> put]

\* The rows of one plugin in the plugin list.  Rows of the same plugin differ
\* only in the state of their enable toggle, so they are counted by that state.
NoRows == [on |-> 0, off |-> 0]

\* mainSettingsView.appendChild(contentRow), its toggle set from the enable value.
AddRow(r, checked) ==
    IF checked THEN [r EXCEPT !.on = @ + 1] ELSE [r EXCEPT !.off = @ + 1]

\* A row whose toggle was in state checked has it flipped by a click.
FlipRow(r, checked) ==
    IF checked THEN [on |-> r.on - 1, off |-> r.off + 1]
    ELSE [on |-> r.on + 1, off |-> r.off - 1]

HasRow(r, checked) == IF checked THEN r.on > 0 ELSE r.off > 0

\* lastDone: valid while nothing but registerPlugins has acted since it last
\* returned; again when that run itself started from a valid lastDone.
Untouched == [valid |-> FALSE, again |-> FALSE, value |-> <<>>, db |-> NoRecord]

(***************************************************************************)
(* The records a user's store may hold when the manager starts.            *)
(***************************************************************************)
InitialRecords(c) ==
    CASE c = 1 ->
           { Record(("Alpha" :> (("enable" :> Bool(FALSE)) @@ ("vol" :> Num(0)))) @@
                    ("Beta" :> (("enable" :> Bool(TRUE)) @@ ("chk" :> Bool(FALSE))))),
             Record(("Alpha" :> (("vol" :> Num(0)) @@ ("old" :> Str("x")))) @@
                    ("Legacy" :> ("enable" :> Bool(TRUE)))) }
      [] c = 2 ->
           { NoRecord,
             Record(("Alpha" :> (("enable" :> Bool(TRUE)) @@ ("mode" :> Str("z")))) @@
                    ("Beta" :> (("enable" :> Bool(TRUE)) @@ ("note" :> Str("ok"))))) }
      [] c = 3 ->
           { NoRecord,
             Record("Alpha" :> (("enable" :> Str("yes")) @@ ("tint" :> Num(3)))) }
      [] c = 6 ->
           { NoRecord,
             Record("Alpha" :> (("enable" :> Bool(TRUE)) @@ ("mode" :> Str("y")) @@
                                ("odd" :> Num(1)))) }
      [] OTHER -> { NoRecord }

\* The lifecycle is not looked at: nothing is registered with the loader.
NoLife == [conf |-> <<>>, registry |-> <<>>, pc |-> "off", idx |-> 0, log |-> <<>>,
           passes |-> 0, escaped |-> FALSE]

\* An action table of the game's context menu: names[name] is the number of
\* the action of that name, nums[n] the name of the action of number n.  The
\* numbers are held as their doubles, so that the halves the division by two
\* yields are integers of the model: 0, 2, 4 stand for 0, 1, 2 and 3 for 1.5.
NoTable == [names |-> <<>>, nums |-> <<>>]

\* The action tables are not looked at.
NoMenus == [VA |-> NoTable, QA |-> NoTable, calls |-> 0,
            call |-> [fn |-> "none", name |-> "none", ret |-> 0]]

\* The Nameplates plugin is not looked at: no entity, no nameplate.
NoPlates == [Players |-> <<>>, NPCS |-> {}, MainPlayer |-> 0,
             enable |-> TRUE, playerNameplates |-> TRUE, npcNameplates |-> TRUE,
             youNameplate |-> TRUE, PlayerDomElements |-> {}, NPCDomElements |-> {},
             last |-> "none"]

\* The settings manager after the plugins of registry c were constructed and
\* its init() has built the menu.
Manager(c) ==
    /\ cfg = c
    /\ value = [i \in DOMAIN AllRegistries[c] |->
                  [k \in DOMAIN AllRegistries[c][i].settings |->
                      AllRegistries[c][i].settings[k].value]]
    /\ databaseSettings = NoRecord
    /\ db \in InitialRecords(c)
    /\ storeQueue = <<>>
    /\ regPc = "idle"
    /\ regIdx = 0
    /\ runs = 0
    /\ rows = [i \in DOMAIN AllRegistries[c] |-> NoRows]
    /\ currentView = 0
    /\ shown = <<>>
    /\ act = NoAct
    /\ lastDone = Untouched
    /\ flags = [i \in DOMAIN AllRegistries[c] |->
                  [k \in DOMAIN AllRegistries[c][i].settings |->
                      [hidden |-> Undefined, disabled |-> Undefined]]]
    /\ proxies = [i \in DOMAIN AllRegistries[c] |-> 0]
    /\ timers = <<>>
    /\ ui = <<>>
    /\ listed = [i \in DOMAIN AllRegistries[c] |-> {}]

\* The state after the plugins of registry c were constructed and the manager's
\* init() has built the menu.
Start(c) == Manager(c) /\ life = NoLife /\ menus = NoMenus /\ plates = NoPlates

Init == \E c \in DOMAIN Registries : Start(c)

(***************************************************************************)
(* makeSettingsReactive, the rows of the detail view and their refreshes.  *)
(***************************************************************************)
\* A task queued with setTimeout(f, delay): a refresh of plugin p, or the end
\* of the hide or show transition of the row with key k.
Timer(kind, p, k, delay) == [kind |-> kind, p |-> p, k |-> k, delay |-> delay]

\* n copies of task t.
Copies(n, t) == [m \in 1..n |-> t]

\* The refresh a reactive field's change asks for.
RefreshOf(field) == IF field = "hidden" THEN "visibility" ELSE "disabled"

\* How many proxies a write to settings[k] of plugin i goes through: enable is
\* never wrapped, every other setting once per call of makeSettingsReactive.
Layers(prox, i, k) == IF k = "enable" THEN 0 ELSE prox[i]

\* contentRow.querySelectorAll('input, button') finds a control: the select of
\* a combobox is neither.
HasInput(s) == s.type \in {"checkbox", "range", "color", "text", "button"}

\* The row openPluginSettings builds for a setting s with the fields f: display
\* is FALSE for display 'none', opaque FALSE for opacity 0.
NewRow(s, f) ==
    [display |-> ~Truthy(f.hidden), opaque |-> ~Truthy(f.hidden),
     disabled |-> Truthy(f.disabled) /\ HasInput(s)]

\* The keys of plugin i whose row document.getElementById finds: the rows of
\* the open detail view, looked up by the setting key alone.
FoundRows(st, i) == (Keys(i) \ {"enable"}) \cap DOMAIN st.ui

RECURSIVE RefreshVisibilityOf(_, _, _)
RefreshVisibilityOf(st, i, ks) ==
    IF ks = {} THEN st
    ELSE LET k == CHOOSE x \in ks : TRUE
             st1 == IF Truthy(st.flags[i][k].hidden)
                    THEN [st EXCEPT !.ui[k].opaque = FALSE,
                                    !.timers = Append(@, Timer("hide", i, k, 200))]
                    ELSE IF ~st.ui[k].display
                    THEN [st EXCEPT !.ui[k].display = TRUE,
                                    !.timers = Append(@, Timer("show", i, k, 10))]
                    ELSE st
         IN RefreshVisibilityOf(st1, i, ks \ {k})

\* refreshPluginSettingsVisibility(plugin)
RefreshPluginSettingsVisibility(st, i) == RefreshVisibilityOf(st, i, FoundRows(st, i))

\* refreshPluginSettingsDisabled(plugin): the controls of a found row are
\* disabled or enabled after the setting's disabled field.
RefreshPluginSettingsDisabled(st, i) ==
    [st EXCEPT !.ui = [k \in DOMAIN st.ui |->
        IF k \in FoundRows(st, i) /\ HasInput(Setting(st.view, k))
        THEN [st.ui[k] EXCEPT !.disabled = Truthy(st.flags[i][k].disabled)]
        ELSE st.ui[k]]]

\* Mutant of ProxySet: the refresh runs inside the set trap, not as a task.
ProxySetInline(st, i, k, field, v) ==
    IF st.flags[i][k][field] = v \/ Layers(st.proxies, i, k) = 0
    THEN [st EXCEPT !.flags[i][k][field] = v]
    ELSE IF field = "hidden"
    THEN RefreshPluginSettingsVisibility([st EXCEPT !.flags[i][k][field] = v], i)
    ELSE RefreshPluginSettingsDisabled([st EXCEPT !.flags[i][k][field] = v], i)

\* Mutant of ProxySet: the refresh is queued whether or not the field changed.
ProxySetAlways(st, i, k, field, v) ==
    [st EXCEPT !.flags[i][k][field] = v,
               !.timers = @ \o Copies(Layers(st.proxies, i, k),
                                      Timer(RefreshOf(field), i, "", 0))]

\* The set trap of the proxies of settings[k] of plugin i, for an assignment of
\* v to the field: the target's field is set, and every proxy on the way queues
\* the refresh with setTimeout(..., 0) when the old value !== the new one.
ProxySet(st, i, k, field, v) ==
    [st EXCEPT !.flags[i][k][field] = v,
               !.timers = IF st.flags[i][k][field] # v
                          THEN @ \o Copies(Layers(st.proxies, i, k),
                                           Timer(RefreshOf(field), i, "", 0))
                          ELSE @]

\* An assignment to the field on the setting object itself.
RawSet(st, i, k, field, v) == [st EXCEPT !.flags[i][k][field] = v]

\* setting.callback.call(plugin) for settings[k] of plugin i: the callback is
\* recorded, and its effect on a hidden or disabled field takes place.
Effect(st, i, e) ==
    IF e.field = "" THEN st
    ELSE IF e.raw THEN RawSet(st, i, e.k, e.field, Bool(~Truthy(st.flags[i][e.k][e.field])))
    ELSE ProxySet(st, i, e.k, e.field, Bool(~Truthy(st.flags[i][e.k][e.field])))

\* A callback that reads this.settings[k].value and writes the values of two
\* other settings of the plugin.
Tally(st, i, k, e) ==
    [st EXCEPT !.value[i][e.k] = st.value[i][k],
               !.value[i][e.tally] = Num((st.value[i][e.tally].n + 1) % (MaxCalls + 1))]

Callback(st, i, k) ==
    IF Setting(i, k).effect.field = "value"
    THEN Tally([st EXCEPT !.hooks = @ \cup {<<i, k, "callback">>}], i, k, Setting(i, k).effect)
    ELSE Effect([st EXCEPT !.hooks = @ \cup {<<i, k, "callback">>}], i, Setting(i, k).effect)

\* What a handler runs once its awaited storePluginSettings has returned.
AfterStore(st, i, then) ==
    LET st1 == IF "visibility" \in then THEN RefreshPluginSettingsVisibility(st, i) ELSE st
    IN IF "disabled" \in then THEN RefreshPluginSettingsDisabled(st1, i) ELSE st1

\* The refreshes the change handler of settings[k] of plugin i runs after its
\* store write: none for the enable toggle of the plugin list, both for a
\* checkbox, the visibility refresh alone for the other kinds.
Continuation(i, k) ==
    IF k = "enable" THEN {}
    ELSE IF Setting(i, k).type = "checkbox" THEN {"visibility", "disabled"}
    ELSE {"visibility"}

(***************************************************************************)
(* storePluginSettings                                                     *)
(***************************************************************************)
\* Mutant of Snapshot: the constructor's values are stored, not the live ones.
SnapshotOfDefaults(val, i) == [k \in Keys(i) |-> Setting(i, k).value]

\* settingStore[pluginName]: every key of the plugin mapped to its live value.
Snapshot(val, i) == [k \in Keys(i) |-> val[i][k]]

\* Mutant of StoreRecord: the sub-record already in the copy wins over the new one.
StoreRecordKeepsOld(dbs, val, i) ==
    Record(dbs.rec @@ (pluginList[i].pluginName :> [k \in Keys(i) |-> val[i][k]]))

\* this.databaseSettings after storePluginSettings(username, pluginList[i]): the
\* copy (an empty object when it was undefined) with the plugin's key replaced.
StoreRecord(dbs, val, i) ==
    Record((pluginList[i].pluginName :> Snapshot(val, i)) @@ dbs.rec)

\* database.put('settings', this.databaseSettings, username): the record is
\* cloned when put is called and reaches the store when the write completes.
\* owner is the plugin whose settings are stored, by the caller (registerPlugins
\* or a handler of the panel).
\* then holds the refreshes the caller runs when the awaited write returns.
Put(dbs, i, by, then) ==
    [kind |-> "put", rec |-> dbs.rec, owner |-> i, by |-> by, then |-> then]

\* database.get('settings', username): the store serves its requests in the
\* order they were made, so a get sees the puts made before it and no later one.
Get == [kind |-> "get", rec |-> <<>>, owner |-> 0, by |-> "reg", then |-> {}]

\* The writes in flight.
PendingPuts(q) == SelectSeq(q, LAMBDA e : e.kind = "put")

\* The state a handler starts from: the live values, the manager's copy, the
\* reactive fields, the timers and the open view's rows, with the writes it
\* issues and the hooks it calls (none yet).
Current == [value |-> value, dbs |-> databaseSettings, puts |-> <<>>, hooks |-> {},
            shown |-> <<>>, rows |-> <<>>, flags |-> flags, proxies |-> proxies, timers |-> timers,
            ui |-> ui, view |-> currentView, threw |-> FALSE]

\* The handler's effects on the reactive fields, the timers and the rows.
CommitUi(st) ==
    /\ Len(st.timers) <= MaxTimers
    /\ flags' = st.flags
    /\ timers' = st.timers
    /\ ui' = st.ui

\* A store write completes: the store holds the record that was put, and the
\* handler that awaited it runs its refreshes.
StoreCommit ==
    /\ storeQueue # <<>>
    /\ Head(storeQueue).kind = "put"
    /\ db' = Record(Head(storeQueue).rec)
    /\ storeQueue' = Tail(storeQueue)
    /\ CommitUi(AfterStore(Current, Head(storeQueue).owner, Head(storeQueue).then))
    /\ act' = Act("storeCommit", Head(storeQueue).owner, "", Bool(FALSE), {}, FALSE)
    /\ UNCHANGED <<menus, plates, life, cfg, value, databaseSettings, regPc, regIdx, runs, rows,
                   currentView, shown, lastDone, proxies, listed>>

(***************************************************************************)
(* registerPlugins                                                         *)
(***************************************************************************)
\* Whether the load loop overwrites settings[k] of plugin i from the record.
IsStored(dbs, i, k) ==
    /\ dbs.has
    /\ pluginList[i].pluginName \in DOMAIN dbs.rec
    /\ k \in DOMAIN dbs.rec[pluginList[i].pluginName]
    /\ FindPlugin(pluginList[i].pluginName) = i

\* Mutant of LoadAll: a stored key the found plugin does not have becomes a
\* setting of it.
LoadAllCreating(dbs, val) ==
    [i \in Plugins |->
        [k \in Keys(i) \cup (IF dbs.has /\ pluginList[i].pluginName \in DOMAIN dbs.rec
                              THEN DOMAIN dbs.rec[pluginList[i].pluginName] ELSE {}) |->
            IF dbs.has /\ pluginList[i].pluginName \in DOMAIN dbs.rec
                  /\ k \in DOMAIN dbs.rec[pluginList[i].pluginName]
            THEN dbs.rec[pluginList[i].pluginName][k]
            ELSE val[i][k]]]

\* Mutant of LoadedHooks: onLoaded is called for every setting that has it,
\* stored or not.
LoadedHooksOfAll(dbs) ==
    {h \in UNION {{<<i, k, "onLoaded">> : k \in Keys(i)} : i \in Plugins} :
        Setting(h[1], h[2]).hasOnLoaded}

\* The live values after the load loop of registerPlugins.
LoadAll(dbs, val) ==
    [i \in Plugins |->
        [k \in Keys(i) |->
            IF IsStored(dbs, i, k) THEN dbs.rec[pluginList[i].pluginName][k]
            ELSE val[i][k]]]

\* The onLoaded hooks the load loop calls.
LoadedHooks(dbs) ==
    {h \in UNION {{<<i, k, "onLoaded">> : k \in Keys(i)} : i \in Plugins} :
        IsStored(dbs, h[1], h[2]) /\ Setting(h[1], h[2]).hasOnLoaded}

\* registerPlugins is called: database.get is awaited.
RegStart ==
    /\ regPc \in {"idle", "done", "failed"}
    /\ runs < MaxRuns
    /\ regPc' = "get"
    /\ runs' = runs + 1
    /\ storeQueue' = Append(storeQueue, Get)
    /\ act' = Act("registerPlugins", 0, "", Bool(FALSE), {}, FALSE)
    /\ UNCHANGED <<menus, plates, life, cfg, value, databaseSettings, db, regIdx, rows,
                   currentView, shown, lastDone>>
    /\ UNCHANGED uiVars

\* database.get resolves: the stored values are loaded into the plugins, and
\* the first plugin's settings are stored.
RegLoaded ==
    /\ regPc = "get"
    /\ storeQueue # <<>>
    /\ Head(storeQueue).kind = "get"
    /\ Len(PendingPuts(storeQueue)) < MaxPending
    /\ LET loaded == LoadAll(db, value)
           dbs == StoreRecord(db, loaded, 1)
       IN /\ value' = loaded
          /\ databaseSettings' = dbs
          /\ storeQueue' = Append(Tail(storeQueue), Put(dbs, 1, "reg", {}))
          /\ act' = Act("load", 0, "", Bool(FALSE), LoadedHooks(db), TRUE)
    /\ regPc' = "put"
    /\ regIdx' = 1
    /\ UNCHANGED <<menus, plates, life, cfg, db, runs, rows, currentView, shown, lastDone>>
    /\ UNCHANGED uiVars

\* The awaited store write of plugin regIdx has completed: its settings are made
\* reactive, its row is created, and the next plugin's settings are stored; after
\* the last plugin registerPlugins returns.
\* Mutant of RegNext: the loop goes on without awaiting the plugin's store write.
RegNextUnawaited ==
    /\ regPc = "put"
    /\ proxies' = [proxies EXCEPT ![regIdx] = @ + 1]
    /\ rows' = [rows EXCEPT ![regIdx] = AddRow(@, Truthy(value[regIdx]["enable"]))]
    /\ listed' = [listed EXCEPT ![regIdx] = @ \cup {TRUE}]
    /\ \/ /\ regIdx < Len(pluginList)
          /\ Len(PendingPuts(storeQueue)) < MaxPending
          /\ LET dbs == StoreRecord(databaseSettings, value, regIdx + 1)
             IN /\ databaseSettings' = dbs
                /\ storeQueue' = Append(storeQueue, Put(dbs, regIdx + 1, "reg", {}))
          /\ regIdx' = regIdx + 1
          /\ act' = Act("store", regIdx + 1, "", Bool(FALSE), {}, TRUE)
          /\ UNCHANGED <<regPc, lastDone>>
       \/ /\ regIdx = Len(pluginList)
          /\ regPc' = "done"
          /\ regIdx' = 0
          /\ act' = Act("registered", 0, "", Bool(FALSE), {}, FALSE)
          /\ lastDone' = [valid |-> storeQueue = <<>>, again |-> lastDone.valid,
                          value |-> value, db |-> db]
          /\ UNCHANGED <<databaseSettings, storeQueue>>
    /\ UNCHANGED <<menus, plates, life, cfg, value, db, runs, currentView, shown, flags, timers, ui>>

RegNext ==
    /\ regPc = "put"
    /\ \A n \in DOMAIN storeQueue : storeQueue[n].by # "reg"
    /\ proxies' = [proxies EXCEPT ![regIdx] = @ + 1]
    /\ rows' = [rows EXCEPT ![regIdx] = AddRow(@, Truthy(value[regIdx]["enable"]))]
    /\ listed' = [listed EXCEPT ![regIdx] = @ \cup {TRUE}]
    /\ \/ /\ regIdx < Len(pluginList)
          /\ Len(PendingPuts(storeQueue)) < MaxPending
          /\ LET dbs == StoreRecord(databaseSettings, value, regIdx + 1)
             IN /\ databaseSettings' = dbs
                /\ storeQueue' = Append(storeQueue, Put(dbs, regIdx + 1, "reg", {}))
          /\ regIdx' = regIdx + 1
          /\ act' = Act("store", regIdx + 1, "", Bool(FALSE), {}, TRUE)
          /\ UNCHANGED <<regPc, lastDone>>
       \/ /\ regIdx = Len(pluginList)
          /\ regPc' = "done"
          /\ regIdx' = 0
          /\ act' = Act("registered", 0, "", Bool(FALSE), {}, FALSE)
          /\ lastDone' = [valid |-> storeQueue = <<>>, again |-> lastDone.valid,
                          value |-> value, db |-> db]
          /\ UNCHANGED <<databaseSettings, storeQueue>>
    /\ UNCHANGED <<menus, plates, life, cfg, value, db, runs, currentView, shown, flags, timers, ui>>

(***************************************************************************)
(* The plugin list: the enable toggle and the cog of a plugin's row.       *)
(***************************************************************************)
\* The three statements every accepted write runs: the value is set, the
\* callback is called on the plugin, storePluginSettings puts the record.
\* st carries the live values, the manager's copy, the writes and hooks so far.
\* storePluginSettings(username, pluginList[i]) called by the handler of key k.
Store(st, i, k, dbs) ==
    [st EXCEPT !.dbs = dbs, !.puts = Append(@, Put(dbs, i, "user", Continuation(i, k)))]

\* Mutant of StorePluginSettings: the record put holds the plugin's key only.
StorePluginSettingsAlone(st, i, k) ==
    Store(st, i, k, Record(pluginList[i].pluginName :> Snapshot(st.value, i)))

StorePluginSettings(st, i, k) == Store(st, i, k, StoreRecord(st.dbs, st.value, i))

\* Mutant of Apply: the setting's validator is asked first, and a rejected
\* value is dropped.
ApplyValidated(st, i, k, v) ==
    IF Setting(i, k).hasValidation /\ v \in Setting(i, k).rejects THEN st
    ELSE StorePluginSettings(Callback([st EXCEPT !.value[i][k] = v], i, k), i, k)

\* Mutant of Apply: the record is written before the callback is called.
ApplyStoreFirst(st, i, k, v) ==
    Callback(StorePluginSettings([st EXCEPT !.value[i][k] = v], i, k), i, k)

Apply(st, i, k, v) ==
    StorePluginSettings(Callback([st EXCEPT !.value[i][k] = v], i, k), i, k)

\* The handler's effects on the settings and the store take place.
Commit(st) ==
    /\ Len(PendingPuts(storeQueue)) + Len(st.puts) <= MaxPending
    /\ value' = st.value
    /\ databaseSettings' = st.dbs
    /\ storeQueue' = storeQueue \o st.puts
    /\ CommitUi(st)

\* The enable toggle of a row of plugin i is clicked; was is its state before
\* the click, and toggleSwitch.checked is the opposite in the handler.
ToggleEnable(i, was) ==
    /\ currentView = 0
    /\ HasRow(rows[i], was)
    /\ LET checked == ~was
           st == Apply(Current, i, "enable", Bool(checked))
       IN /\ rows' = [rows EXCEPT ![i] = FlipRow(@, was)]
          /\ Commit(st)
          /\ act' = Act("enable", i, "enable", Bool(checked), st.hooks, TRUE)
    /\ lastDone' = Untouched
    /\ UNCHANGED <<menus, plates, life, cfg, db, regPc, regIdx, runs, currentView, shown, proxies, listed>>

(***************************************************************************)
(* openPluginSettings: the detail view of a plugin is built.               *)
(***************************************************************************)
Range(f) == {f[n] : n \in DOMAIN f}

\* numberInput.value = setting.value.toString(), read back by parseFloat: text
\* that is no number leaves the number input empty, which parses to NaN.
NumberInput(v) == IF v.t = "number" THEN v ELSE NaN

\* colorInput.value = (setting.value as string) || '#ff0000'
ColorInput(v) == IF Truthy(v) THEN v ELSE Str("#ff0000")

\* textInput.value = (setting.value as string) || ''
TextInput(v) == IF Truthy(v) THEN v ELSE Str("")

\* The combobox branch builds no select when the choice list is missing or empty.
HasSelect(s) == Len(s.options) >= 1

\* The value is not one of the choices: it is a string of the list otherwise.
NotAChoice(s, v) == v.t # "string" \/ v.s \notin Range(s.options)

\* The change handler of the select: no validation, the picked value is applied.
ComboChange(st, i, k, newValue) == Apply(st, i, k, newValue)

\* Mutant of RenderControl: a value that is not a choice is replaced by the
\* first choice in place, with no change event.
RenderControlSilent(st, i, k) ==
    LET s == Setting(i, k)
        v == st.value[i][k]
        show(x) == [st EXCEPT !.shown = (k :> x) @@ @]
    IN CASE s.type = "checkbox" -> show(Bool(Truthy(v)))
         [] s.type = "range" -> show(NumberInput(v))
         [] s.type = "color" -> show(ColorInput(v))
         [] s.type = "text" -> show(TextInput(v))
         [] s.type = "combobox" /\ ~HasSelect(s) -> st
         [] s.type = "combobox" /\ HasSelect(s) ->
               IF NotAChoice(s, v)
               THEN [st EXCEPT !.value[i][k] = Str(s.options[1]),
                               !.shown = (k :> Str(s.options[1])) @@ @]
               ELSE show(v)
         [] s.type = "button" -> st

\* The control of the row of key k in the detail view of plugin i.
RenderControl(st, i, k) ==
    LET s == Setting(i, k)
        v == st.value[i][k]
        show(x) == [st EXCEPT !.shown = (k :> x) @@ @]
    IN CASE s.type = "checkbox" -> show(Bool(Truthy(v)))
         [] s.type = "range" -> show(NumberInput(v))
         [] s.type = "color" -> show(ColorInput(v))
         [] s.type = "text" -> show(TextInput(v))
         [] s.type = "combobox" /\ ~HasSelect(s) -> st
         [] s.type = "combobox" /\ HasSelect(s) ->
               IF NotAChoice(s, v)
               THEN LET st1 == ComboChange(st, i, k, Str(s.options[1]))
                    IN [st1 EXCEPT !.shown = (k :> st1.value[i][k]) @@ @]
               ELSE show(v)
         [] s.type = "button" -> st

\* The row's style: hidden is read before the control is built, disabled after.
StyleRow(st, i, k, hidden) ==
    [st EXCEPT !.rows = (k :> NewRow(Setting(i, k),
                                     [hidden |-> hidden,
                                      disabled |-> st.flags[i][k].disabled])) @@ @]

\* Mutant of RenderRow: a setting of an unsupported type gets no row and
\* nothing is thrown.
RenderRowSkipping(st, i, k) ==
    IF k = "enable" \/ Setting(i, k).type \notin SettingsTypes THEN st
    ELSE StyleRow(RenderControl(st, i, k), i, k, st.flags[i][k].hidden)

\* One setting row of the detail view of plugin i, for key k: enable has none,
\* and the default case of the switch on the type throws.
RenderRow(st, i, k) ==
    IF k = "enable" THEN st
    ELSE IF Setting(i, k).type \notin SettingsTypes THEN [st EXCEPT !.threw = TRUE]
    ELSE StyleRow(RenderControl(st, i, k), i, k, st.flags[i][k].hidden)

\* The switch on the type of settings[k] ends in its default case.
DefaultCase(i, k) == k # "enable" /\ Setting(i, k).type \notin SettingsTypes

\* The loop over plugin.settings: the row that reaches the default case is
\* the last one the loop gets to.
RECURSIVE RenderRows(_, _, _)
RenderRows(st, i, ks) ==
    IF ks = <<>> THEN st
    ELSE IF DefaultCase(i, Head(ks)) THEN RenderRow(st, i, Head(ks))
    ELSE CHOOSE done \in {RenderRows(row, i, Tail(ks)) : row \in {RenderRow(st, i, Head(ks))}} : TRUE

\* What the click handler of the cog reports when openPluginSettings threw.
UnsupportedType == Str("Unsupported setting type")

\* The cog of a row of plugin i is clicked (it is not displayed when the plugin
\* has only its enable setting).  The plugin list is taken out of the panel
\* first; the detail view is put in after the loop, so a throw in the loop
\* leaves the panel with no view (currentView -1).
OpenPluginSettings(i) ==
    /\ currentView = 0
    /\ rows[i] # NoRows
    /\ Cardinality(Keys(i)) # 1
    /\ \E built \in {RenderRows([Current EXCEPT !.rows = <<>>], i, pluginList[i].keys)} :
       \E st \in {[built EXCEPT !.ui = IF built.threw THEN <<>> ELSE built.rows,
                                !.shown = IF built.threw THEN <<>> ELSE built.shown]} :
          /\ Commit(st)
          /\ shown' = st.shown
          /\ act' = Act("open", i, "", IF st.threw THEN UnsupportedType ELSE Bool(FALSE),
                        st.hooks, st.puts # <<>>)
          /\ currentView' = IF st.threw THEN 0 - 1 ELSE i
    /\ lastDone' = Untouched
    /\ UNCHANGED <<menus, plates, life, cfg, db, regPc, regIdx, runs, rows, proxies, listed>>

\* The views that are children of the panel container: openPluginSettings
\* takes the current view out first and puts the new one in last, so a throw
\* in between leaves none.
PanelViews == IF currentView \in Plugins \cup {0} THEN {currentView} ELSE {}

\* The field this.currentView: it is assigned together with the appendChild,
\* so after a throw it still refers to the plugin list, the view that
\* openPluginSettings was called from.
CurrentViewField == IF currentView \in Plugins THEN currentView ELSE 0

\* The tasks that still have an effect once the detail view has left the
\* document: the end of a transition only styles a row of that view.
WithoutRowTimers(q) == SelectSeq(q, LAMBDA t : t.kind \in {"visibility", "disabled"})

\* The back button of the detail view is clicked.
Back ==
    /\ currentView \in Plugins
    /\ currentView' = 0
    /\ shown' = <<>>
    /\ ui' = <<>>
    /\ timers' = WithoutRowTimers(timers)
    /\ act' = Act("back", currentView, "", Bool(FALSE), {}, FALSE)
    /\ lastDone' = Untouched
    /\ UNCHANGED <<menus, plates, life, cfg, value, databaseSettings, db, storeQueue, regPc, regIdx,
                   runs, rows, flags, proxies, listed>>

(***************************************************************************)
(* The change handlers of the controls of the detail view.                 *)
(***************************************************************************)
\* What the user may type into a number input, as parseFloat reads it (NaN for
\* an emptied field), and what the user may enter in a text or a color input.
RangeCandidates == {Num(0 - 1), Num(0), Num(7), Num(10), Num(11), NaN}

TextCandidates == {Str("ok"), Str("bad")}

ColorCandidates == {Str("#00ff00"), Str("#000000")}

\* setting.validation && !setting.validation(newValue)
ValidationRejects(s, newValue) == s.hasValidation /\ newValue \in s.rejects

\* Mutant of OutOfBounds: the upper bound is not checked.
OutOfBoundsBelowOnly(s, newValue) == Less(newValue, s.min)

\* newValue < min || newValue > max
OutOfBounds(s, newValue) == Less(newValue, s.min) \/ Less(s.max, newValue)

\* A handler that returns before it applies the candidate.
Rejected(name, i, k, cand) ==
    /\ act' = Act(name, i, k, cand, {}, FALSE)
    /\ UNCHANGED <<value, databaseSettings, storeQueue, flags, timers, ui>>

\* The user can operate the control of the row with key k: the row is laid
\* out and its control is not disabled.
Usable(k) == k \in DOMAIN ui /\ ui[k].display /\ ~ui[k].disabled

\* A handler that applies the candidate.
Accepted(name, i, k, cand) ==
    LET st == Apply(Current, i, k, cand)
    IN /\ Commit(st)
       /\ act' = Act(name, i, k, cand, st.hooks, TRUE)

\* The checkbox of setting k is toggled.
EditCheckbox(k) ==
    /\ currentView \in Plugins
    /\ k \in DOMAIN shown
    /\ Usable(k)
    /\ Setting(currentView, k).type = "checkbox"
    /\ LET i == currentView
           s == Setting(i, k)
           newValue == Bool(~Truthy(shown[k]))
       IN IF ValidationRejects(s, newValue)
          THEN /\ shown' = [shown EXCEPT ![k] = Bool(Truthy(value[i][k]))]
               /\ Rejected("checkbox", i, k, newValue)
          ELSE /\ shown' = [shown EXCEPT ![k] = newValue]
               /\ Accepted("checkbox", i, k, newValue)
    /\ lastDone' = Untouched
    /\ UNCHANGED <<menus, plates, life, cfg, db, regPc, regIdx, runs, rows, currentView, proxies, listed>>

\* The number input of setting k is changed to c.
EditRange(k, c) ==
    /\ currentView \in Plugins
    /\ k \in DOMAIN shown
    /\ Usable(k)
    /\ Setting(currentView, k).type = "range"
    /\ c \in RangeCandidates
    /\ c # shown[k]
    /\ LET i == currentView
           s == Setting(i, k)
       IN IF OutOfBounds(s, c)
          THEN /\ shown' = [shown EXCEPT ![k] = c]
               /\ Rejected("range", i, k, c)
          ELSE IF ValidationRejects(s, c)
          THEN /\ shown' = [shown EXCEPT ![k] = NumberInput(value[i][k])]
               /\ Rejected("range", i, k, c)
          ELSE /\ shown' = [shown EXCEPT ![k] = c]
               /\ Accepted("range", i, k, c)
    /\ lastDone' = Untouched
    /\ UNCHANGED <<menus, plates, life, cfg, db, regPc, regIdx, runs, rows, currentView, proxies, listed>>

\* The color input of setting k is changed to c.
EditColor(k, c) ==
    /\ currentView \in Plugins
    /\ k \in DOMAIN shown
    /\ Usable(k)
    /\ Setting(currentView, k).type = "color"
    /\ c \in ColorCandidates
    /\ c # shown[k]
    /\ LET i == currentView
           s == Setting(i, k)
       IN IF ValidationRejects(s, c)
          THEN /\ shown' = [shown EXCEPT ![k] = value[i][k]]
               /\ Rejected("color", i, k, c)
          ELSE /\ shown' = [shown EXCEPT ![k] = c]
               /\ Accepted("color", i, k, c)
    /\ lastDone' = Untouched
    /\ UNCHANGED <<menus, plates, life, cfg, db, regPc, regIdx, runs, rows, currentView, proxies, listed>>

\* The text input of setting k is changed to c.
EditText(k, c) ==
    /\ currentView \in Plugins
    /\ k \in DOMAIN shown
    /\ Usable(k)
    /\ Setting(currentView, k).type = "text"
    /\ c \in TextCandidates
    /\ c # shown[k]
    /\ LET i == currentView
           s == Setting(i, k)
       IN IF ValidationRejects(s, c)
          THEN /\ shown' = [shown EXCEPT ![k] = value[i][k]]
               /\ Rejected("text", i, k, c)
          ELSE /\ shown' = [shown EXCEPT ![k] = c]
               /\ Accepted("text", i, k, c)
    /\ lastDone' = Untouched
    /\ UNCHANGED <<menus, plates, life, cfg, db, regPc, regIdx, runs, rows, currentView, proxies, listed>>

\* The options of the select: String(setting.options[i]).
ComboCandidates(s) == {Str(o) : o \in Range(s.options)}

\* Choice c of the select of setting k is picked.
PickCombobox(k, c) ==
    /\ currentView \in Plugins
    /\ k \in DOMAIN shown
    /\ Usable(k)
    /\ Setting(currentView, k).type = "combobox"
    /\ c \in ComboCandidates(Setting(currentView, k))
    /\ c # shown[k]
    /\ LET st == ComboChange(Current, currentView, k, c)
       IN /\ Commit(st)
          /\ act' = Act("combobox", currentView, k, c, st.hooks, TRUE)
    /\ shown' = [shown EXCEPT ![k] = c]
    /\ lastDone' = Untouched
    /\ UNCHANGED <<menus, plates, life, cfg, db, regPc, regIdx, runs, rows, currentView, proxies, listed>>

\* Mutant of PressButton: the handler asks the validator about the setting's
\* value first, as the handlers of the inputs do, and returns when it rejects.
PressButtonValidated(k) ==
    /\ currentView \in Plugins
    /\ k \in Keys(currentView)
    /\ Usable(k)
    /\ Setting(currentView, k).type = "button"
    /\ IF ValidationRejects(Setting(currentView, k), value[currentView][k])
       THEN /\ act' = Act("button", currentView, k, Bool(FALSE), {}, FALSE)
            /\ UNCHANGED <<flags, timers, ui>>
       ELSE LET st == RefreshPluginSettingsVisibility(Callback(Current, currentView, k),
                                                      currentView)
            IN /\ CommitUi(st)
               /\ act' = Act("button", currentView, k, Bool(FALSE), st.hooks, FALSE)
    /\ lastDone' = Untouched
    /\ UNCHANGED <<menus, plates, life, cfg, value, databaseSettings, db, storeQueue, regPc, regIdx,
                   runs, rows, currentView, shown, proxies, listed>>

\* The button of setting k is clicked: its callback runs, then the visibility
\* refresh of the plugin.
PressButton(k) ==
    /\ currentView \in Plugins
    /\ k \in Keys(currentView)
    /\ Usable(k)
    /\ Setting(currentView, k).type = "button"
    /\ LET st == RefreshPluginSettingsVisibility(Callback(Current, currentView, k),
                                                 currentView)
       IN /\ CommitUi(st)
          /\ act' = Act("button", currentView, k, Bool(FALSE), st.hooks, FALSE)
    /\ lastDone' = Untouched
    /\ UNCHANGED <<menus, plates, life, cfg, value, databaseSettings, db, storeQueue, regPc, regIdx,
                   runs, rows, currentView, shown, proxies, listed>>

Next ==
    \/ RegStart
    \/ RegLoaded
    \/ RegNext
    \/ StoreCommit
    \/ \E i \in Plugins : \E was \in BOOLEAN : ToggleEnable(i, was)
    \/ \E i \in Plugins : OpenPluginSettings(i)
    \/ Back
    \/ \E k \in DOMAIN shown : EditCheckbox(k)
    \/ \E k \in DOMAIN shown : \E c \in RangeCandidates : EditRange(k, c)
    \/ \E k \in DOMAIN shown : \E c \in ColorCandidates : EditColor(k, c)
    \/ \E k \in DOMAIN shown : \E c \in TextCandidates : EditText(k, c)
    \/ \E k \in DOMAIN shown : \E c \in ComboCandidates(Setting(currentView, k)) :
            PickCombobox(k, c)
    \/ \E k \in (IF currentView \in Plugins THEN Keys(currentView) ELSE {}) : PressButton(k)

Spec == Init /\ [][Next]_vars

\* A second writer for the same user (the manager of another page) stores a
\* plugin's settings with the enable value flipped.
ExternalWrite(n) ==
    /\ db.has
    /\ regPc = "done"
    /\ n \in DOMAIN db.rec
    /\ "enable" \in DOMAIN db.rec[n]
    /\ db' = [db EXCEPT !.rec[n]["enable"] = Bool(~Truthy(@))]
    /\ act' = Act("external", FindPlugin(n), "enable", Bool(FALSE), {}, FALSE)
    /\ lastDone' = Untouched
    /\ UNCHANGED <<menus, plates, life, cfg, value, databaseSettings, storeQueue, regPc, regIdx, runs,
                   rows, currentView, shown>>
    /\ UNCHANGED uiVars

NextExt ==
    \/ RegStart
    \/ RegLoaded
    \/ RegNext
    \/ StoreCommit
    \/ \E i \in Plugins : \E was \in BOOLEAN : ToggleEnable(i, was)
    \/ \E n \in {pluginList[i].pluginName : i \in Plugins} : ExternalWrite(n)

\* The manager and its plugin list together with a second writer of the same
\* user's record.
SpecExt == Init /\ [][NextExt]_vars

(***************************************************************************)
(* The plugin's own writes to hidden and disabled, and the timers.         *)
(***************************************************************************)
\* The code of plugin i assigns v to this.settings[k][field].
PluginWrite(i, k, field, v) ==
    /\ Setting(i, k).dynamic
    /\ CommitUi(ProxySet(Current, i, k, field, Bool(v)))
    /\ act' = Act(field, i, k, Bool(v), {}, FALSE)
    /\ lastDone' = Untouched
    /\ UNCHANGED <<menus, plates, life, cfg, value, databaseSettings, db, storeQueue, regPc, regIdx,
                   runs, rows, currentView, shown, proxies, listed>>

\* Task n may run next: no task queued before it has a delay as short.
Due(n) == \A m \in 1..(n - 1) : timers[m].delay > timers[n].delay

WithoutTimer(q, n) == SubSeq(q, 1, n - 1) \o SubSeq(q, n + 1, Len(q))

\* The task runs: a refresh, or the end of a row's transition (display 'none'
\* after a hide, opacity 1 after a show).
RunTimer(n) ==
    /\ n \in DOMAIN timers
    /\ Due(n)
    /\ LET t == timers[n]
           st == [Current EXCEPT !.timers = WithoutTimer(timers, n)]
       IN /\ CommitUi(CASE t.kind = "visibility" -> RefreshPluginSettingsVisibility(st, t.p)
                         [] t.kind = "disabled" -> RefreshPluginSettingsDisabled(st, t.p)
                         [] t.kind = "hide" ->
                               IF t.k \in DOMAIN ui THEN [st EXCEPT !.ui[t.k].display = FALSE]
                               ELSE st
                         [] t.kind = "show" ->
                               IF t.k \in DOMAIN ui THEN [st EXCEPT !.ui[t.k].opaque = TRUE]
                               ELSE st)
          /\ act' = Act("timer", t.p, t.k, Str(t.kind), {}, FALSE)
    /\ lastDone' = Untouched
    /\ UNCHANGED <<menus, plates, life, cfg, value, databaseSettings, db, storeQueue, regPc, regIdx,
                   runs, rows, currentView, shown, proxies, listed>>

NextUI ==
    \/ RegStart
    \/ RegLoaded
    \/ RegNext
    \/ StoreCommit
    \/ \E i \in Plugins : OpenPluginSettings(i)
    \/ Back
    \/ \E k \in DOMAIN shown : \E c \in TextCandidates : EditText(k, c)
    \/ \E k \in (IF currentView \in Plugins THEN Keys(currentView) ELSE {}) : PressButton(k)
    \/ \E i \in Plugins : \E k \in Keys(i) : \E field \in {"hidden", "disabled"} :
          \E v \in BOOLEAN : PluginWrite(i, k, field, v)
    \/ \E n \in DOMAIN timers : RunTimer(n)

\* The manager with a plugin whose code and callbacks write hidden and disabled.
InitUI == Start(4)

SpecUI == InitUI /\ [][NextUI]_vars

(***************************************************************************)
(* toggleSettingVisibility, showSetting and hideSetting.                   *)
(***************************************************************************)
\* hidden !== undefined ? hidden : !setting.hidden
NewHiddenState(st, i, k, hidden) ==
    IF hidden # Undefined THEN hidden ELSE Bool(~Truthy(st.flags[i][k].hidden))

\* The row found by the key starts its transition: to hidden, or to shown.
Transition(st, i, k, newHiddenState) ==
    IF Truthy(newHiddenState)
    THEN [st EXCEPT !.ui[k].opaque = FALSE,
                    !.timers = Append(@, Timer("hide", i, k, 200))]
    ELSE [st EXCEPT !.ui[k].display = TRUE,
                    !.timers = Append(@, Timer("show", i, k, 10))]

\* The body of toggleSettingVisibility once the row, the plugin and the
\* setting were found: setting.hidden is assigned, then the row is styled.
SetHidden(st, i, k, newHiddenState) ==
    Transition(ProxySet(st, i, k, "hidden", newHiddenState), i, k, newHiddenState)

\* The names and keys toggleSettingVisibility is called with: those of the
\* registry, and one that names no plugin and no setting.
CalledNames == {pluginList[i].pluginName : i \in Plugins} \cup {"Ghost"}

CalledKeys == UNION {Keys(i) : i \in Plugins} \cup {"ghost"}

\* toggleSettingVisibility(pluginName, settingKey, hidden); showSetting passes
\* false and hideSetting true.
ToggleSettingVisibility(pluginName, settingKey, hidden) ==
    /\ IF /\ settingKey \in DOMAIN ui
          /\ FindPlugin(pluginName) # 0
          /\ settingKey \in Keys(FindPlugin(pluginName))
       THEN CommitUi(SetHidden(Current, FindPlugin(pluginName), settingKey,
                               NewHiddenState(Current, FindPlugin(pluginName),
                                              settingKey, hidden)))
       ELSE UNCHANGED <<flags, timers, ui>>
    /\ act' = Act("toggleVisibility", FindPlugin(pluginName), settingKey, hidden, {}, FALSE)
    /\ lastDone' = Untouched
    /\ UNCHANGED <<menus, plates, life, cfg, value, databaseSettings, db, storeQueue, regPc, regIdx,
                   runs, rows, currentView, shown, proxies, listed>>

NextVis ==
    \/ RegStart
    \/ RegLoaded
    \/ RegNext
    \/ StoreCommit
    \/ \E i \in Plugins : OpenPluginSettings(i)
    \/ Back
    \/ \E i \in Plugins : \E k \in Keys(i) : \E field \in {"hidden", "disabled"} :
          \E v \in BOOLEAN : PluginWrite(i, k, field, v)
    \/ \E pluginName \in CalledNames : \E settingKey \in CalledKeys :
          \E hidden \in {Undefined, Bool(TRUE), Bool(FALSE)} :
             ToggleSettingVisibility(pluginName, settingKey, hidden)
    \/ \E n \in DOMAIN timers : RunTimer(n)

InitVis == Start(4)

\* The manager with a plugin whose code shows and hides its settings.
SpecVis == InitVis /\ [][NextVis]_vars

(***************************************************************************)
(* Two plugins with a setting of the same key.                             *)
(***************************************************************************)
NextShared ==
    \/ RegStart
    \/ RegLoaded
    \/ RegNext
    \/ StoreCommit
    \/ \E i \in Plugins : OpenPluginSettings(i)
    \/ Back
    \/ \E i \in Plugins : \E k \in Keys(i) : \E field \in {"hidden", "disabled"} :
          \E v \in BOOLEAN : PluginWrite(i, k, field, v)
    \/ \E n \in DOMAIN timers : RunTimer(n)

InitShared == Start(9)

SpecShared == InitShared /\ [][NextShared]_vars

(***************************************************************************)
(* A plugin that disables its controls.                                    *)
(***************************************************************************)
NextDisabled ==
    \/ RegStart
    \/ RegLoaded
    \/ RegNext
    \/ StoreCommit
    \/ \E i \in Plugins : OpenPluginSettings(i)
    \/ Back
    \/ \E k \in (IF currentView \in Plugins THEN Keys(currentView) ELSE {}) : EditCheckbox(k)
    \/ \E k \in DOMAIN shown : \E c \in {Str("a"), Str("b")} : PickCombobox(k, c)
    \/ \E i \in Plugins : \E k \in Keys(i) : \E v \in BOOLEAN : PluginWrite(i, k, "disabled", v)
    \/ \E n \in DOMAIN timers : RunTimer(n)

InitDisabled == Start(10)

SpecDisabled == InitDisabled /\ [][NextDisabled]_vars

(***************************************************************************)
(* updatePluginSettingsUI, after the plugin's code has assigned values.    *)
(***************************************************************************)
\* The values the code of a plugin assigns to a setting of its own.
AssignCandidates(s) ==
    CASE s.type = "checkbox" -> {Bool(TRUE), Bool(FALSE)}
      [] s.type = "range" -> {Num(0), Num(7)}
      [] s.type = "color" -> {Str("#000000"), Str("#00ff00")}
      [] s.type = "text" -> TextCandidates
      [] s.type = "combobox" -> ComboCandidates(s)
      [] OTHER -> {}

\* The code of plugin i assigns v to this.settings[k].value: the set trap
\* passes a write of the value on to the setting and queues nothing.
PluginAssign(i, k, v) ==
    /\ k # "enable"
    /\ v \in AssignCandidates(Setting(i, k))
    /\ value' = [value EXCEPT ![i][k] = v]
    /\ act' = Act("assign", i, k, v, {}, FALSE)
    /\ lastDone' = Untouched
    /\ UNCHANGED <<menus, plates, life, cfg, databaseSettings, db, storeQueue, regPc, regIdx, runs,
                   rows, currentView, shown, proxies, listed>>
    /\ UNCHANGED <<flags, timers, ui>>

\* String.prototype.includes
Includes(t, term) ==
    \E n \in 0..(Len(t) - Len(term)) : SubSeq(t, n + 1, n + Len(term)) = term

\* plugin.pluginName as a sequence of characters; a name the registry gives
\* as a whole counts as one character that occurs in no other name.
NameText(i) ==
    IF "nameText" \in DOMAIN pluginList[i] THEN pluginList[i].nameText
    ELSE <<pluginList[i].pluginName>>

\* title.innerText of the detail view of plugin i
TitleText(i) == NameText(i) \o <<" ", "S", "e", "t", "t", "i", "n", "g", "s">>

\* titleElement.innerText.includes(plugin.pluginName), while a detail view
\* is the current view.
TitleIncludes(i) ==
    /\ currentView \in Plugins
    /\ Includes(TitleText(currentView), NameText(i))

\* What the row's control holds after the switch on setting.type: the
\* combobox case looks for 'input[list]', and the row of a combobox has a
\* select and no input.
UpdatedControl(s, v, old) ==
    CASE s.type = "checkbox" -> Bool(Truthy(v))
      [] s.type = "range" -> NumberInput(v)
      [] s.type = "color" -> v
      [] s.type = "text" -> v
      [] OTHER -> old

\* updatePluginSettingsUI(pluginList[i]): the rows are looked up in the open
\* view by the setting key, and the input by the type of the plugin's setting.
UpdatePluginSettingsUI(i) ==
    /\ shown' = IF TitleIncludes(i)
                THEN [k \in DOMAIN shown |->
                        IF /\ k \in Keys(i) \ {"enable"}
                           /\ Setting(currentView, k).type = Setting(i, k).type
                        THEN UpdatedControl(Setting(i, k), value[i][k], shown[k])
                        ELSE shown[k]]
                ELSE shown
    /\ act' = Act("updateUI", i, "", Bool(FALSE), {}, FALSE)
    /\ lastDone' = Untouched
    /\ UNCHANGED <<menus, plates, life, cfg, value, databaseSettings, db, storeQueue, regPc, regIdx,
                   runs, rows, currentView, proxies, listed>>
    /\ UNCHANGED <<flags, timers, ui>>

NextUpdate ==
    \/ RegStart
    \/ RegLoaded
    \/ RegNext
    \/ StoreCommit
    \/ \E i \in Plugins : OpenPluginSettings(i)
    \/ Back
    \/ \E i \in Plugins : \E k \in Keys(i) :
          \E v \in AssignCandidates(Setting(i, k)) : PluginAssign(i, k, v)
    \/ \E i \in Plugins : UpdatePluginSettingsUI(i)

InitUpdate == Start(8)

\* The manager with a plugin that assigns its settings' values and asks for
\* the detail view to be brought up to date.
SpecUpdate == InitUpdate /\ [][NextUpdate]_vars

(***************************************************************************)
(* Two plugins, the name of one being part of the name of the other.       *)
(***************************************************************************)
NextTitle ==
    \/ RegStart
    \/ RegLoaded
    \/ RegNext
    \/ StoreCommit
    \/ \E i \in Plugins : OpenPluginSettings(i)
    \/ Back
    \/ \E i \in Plugins : \E k \in Keys(i) :
          \E v \in AssignCandidates(Setting(i, k)) : PluginAssign(i, k, v)
    \/ \E i \in Plugins : UpdatePluginSettingsUI(i)

InitTitle == Start(11)

SpecTitle == InitTitle /\ [][NextTitle]_vars

(***************************************************************************)
(* filterPlugins: the search of the plugin list.                           *)
(***************************************************************************)
\* String.prototype.toLowerCase, on the characters of the model.
LowerChar(c) ==
    CASE c = "A" -> "a" [] c = "B" -> "b" [] c = "L" -> "l" [] c = "N" -> "n"
      [] c = "W" -> "w" [] OTHER -> c

ToLowerCase(t) == [n \in DOMAIN t |-> LowerChar(t[n])]

\* pluginAuthor.innerText
AuthorText(i) == <<"b", "y", " ">> \o pluginList[i].author

\* The condition under which filterPlugins displays a row of plugin i.
Matches(i, searchTerm) ==
    \/ searchTerm = <<>>
    \/ Includes(ToLowerCase(pluginList[i].nameText), searchTerm)
    \/ Includes(ToLowerCase(AuthorText(i)), searchTerm)

\* What the user may type into the search input.
SearchChars == {"a", "A", "l", "i", "b", "y"}

RECURSIVE Typed(_)
Typed(n) ==
    IF n = 0 THEN {<<>>}
    ELSE Typed(n - 1) \cup {Append(t, c) : t \in Typed(n - 1), c \in SearchChars}

\* The input event of the search input: filterPlugins(value.toLowerCase())
\* sets the display of every row of the plugin list.
FilterInput(typed) ==
    /\ currentView = 0
    /\ listed' = [i \in Plugins |->
                    IF listed[i] = {} THEN {} ELSE {Matches(i, ToLowerCase(typed))}]
    /\ act' = [Act("filter", 0, "", Bool(FALSE), {}, FALSE) EXCEPT !.hooks = {typed}]
    /\ lastDone' = Untouched
    /\ UNCHANGED <<menus, plates, life, cfg, value, databaseSettings, db, storeQueue, regPc, regIdx,
                   runs, rows, currentView, shown, flags, proxies, timers, ui>>

NextFilter ==
    \/ RegStart
    \/ RegLoaded
    \/ RegNext
    \/ StoreCommit
    \/ \E typed \in Typed(MaxTermLen) : FilterInput(typed)

\* The plugin list with its search.
InitFilter == Start(5)

SpecFilter == InitFilter /\ [][NextFilter]_vars

(***************************************************************************)
(* A store that rejects writes.                                            *)
(***************************************************************************)
\* A store write is rejected: the stored record stays, the await of
\* storePluginSettings throws.  registerPlugins has no handler for it, so its
\* loop ends there (regIdx stays on the plugin whose write failed); a change
\* handler skips the refreshes that follow its await.
StoreFail ==
    /\ storeQueue # <<>>
    /\ Head(storeQueue).kind = "put"
    /\ storeQueue' = Tail(storeQueue)
    /\ regPc' = IF Head(storeQueue).by = "reg" THEN "failed" ELSE regPc
    /\ act' = Act("storeFail", Head(storeQueue).owner, "", Bool(FALSE), {}, FALSE)
    /\ lastDone' = Untouched
    /\ UNCHANGED <<menus, plates, life, cfg, value, databaseSettings, db, regIdx, runs, rows,
                   currentView, shown>>
    /\ UNCHANGED uiVars

NextFail ==
    \/ RegStart
    \/ RegLoaded
    \/ RegNext
    \/ StoreCommit
    \/ \E i \in Plugins : \E was \in BOOLEAN : ToggleEnable(i, was)
    \/ StoreFail

\* The manager and its plugin list on a store whose writes may be rejected.
SpecFail == Init /\ [][NextFail]_vars

(***************************************************************************)
(* A plugin with a setting of an unsupported type.                         *)
(***************************************************************************)
NextRender ==
    \/ RegStart
    \/ RegLoaded
    \/ RegNext
    \/ StoreCommit
    \/ \E i \in Plugins : \E was \in BOOLEAN : ToggleEnable(i, was)
    \/ \E i \in Plugins : OpenPluginSettings(i)

InitRender == Start(6)

\* The manager with a plugin one of whose settings has a type outside the enum.
SpecRender == InitRender /\ [][NextRender]_vars

(***************************************************************************)
(* A plugin whose callback writes the values of other settings.            *)
(***************************************************************************)
NextOrder ==
    \/ RegStart
    \/ RegLoaded
    \/ RegNext
    \/ StoreCommit
    \/ \E i \in Plugins : \E was \in BOOLEAN : ToggleEnable(i, was)
    \/ \E i \in Plugins : OpenPluginSettings(i)
    \/ Back
    \/ \E k \in (IF currentView \in Plugins THEN Keys(currentView) ELSE {}) : EditCheckbox(k)

InitOrder == Start(7)

SpecOrder == InitOrder /\ [][NextOrder]_vars

(***************************************************************************)
(* The lifecycle of the plugins.  startHighlite registers the plugin       *)
(* classes with the loader and calls highlite.start(); start() and the     *)
(* dispatch of game events to the plugins' hooks follow the lifecycle of   *)
(* the specification: init for every plugin in registry order, then        *)
(* postInit for every plugin that has it, then start for every plugin, and *)
(* after that every event goes to every plugin that has a hook of its      *)
(* name, each call on its own behind a catch.                              *)
(***************************************************************************)
\* The classes startHighlite registers, in the order of its calls.
Registered == <<"VersionNotification", "HPAlert", "IdleAlert", "PlayerLookup", "WikiLookup">>

\* What a plugin class may look like to the lifecycle: postInit is optional,
\* and its hook for the event is absent, returns or throws.
LifeConfs == [postInit : BOOLEAN, hook : {"none", "ok", "throws"}]

\* highlite.pluginLoader.registerPlugin(pluginClass): one instance is appended.
RegisterPlugin ==
    /\ life.pc = "register"
    /\ Len(life.registry) < Len(Registered)
    /\ life' = [life EXCEPT !.registry = Append(@, Registered[Len(@) + 1])]
    /\ UNCHANGED <<managerVars, menus, plates>>

\* highlite.start() is called once every class is registered.
HighliteStart ==
    /\ life.pc = "register"
    /\ Len(life.registry) = Len(Registered)
    /\ life' = [life EXCEPT !.pc = "init", !.idx = 1]
    /\ UNCHANGED <<managerVars, menus, plates>>

\* Mutant of PhaseAfter: start is called on the plugins before postInit.
PhaseAfterStartFirst(pc) ==
    CASE pc = "init" -> "start"
      [] pc = "start" -> "postInit"
      [] pc = "postInit" -> "running"

\* The phases of start(): init, postInit, start, then the plugins run.
PhaseAfter(pc) ==
    CASE pc = "init" -> "postInit"
      [] pc = "postInit" -> "start"
      [] pc = "start" -> "running"

\* The loop of a phase moves to the next plugin of the registry, and to the
\* next phase after the last plugin.
Advance(l) ==
    IF l.idx < Len(l.registry) THEN [l EXCEPT !.idx = @ + 1]
    ELSE [l EXCEPT !.idx = 1, !.pc = PhaseAfter(l.pc)]

\* A call of a lifecycle method of plugin idx, entered in the log.
Called(l, what) == [l EXCEPT !.log = Append(@, <<what, l.idx>>)]

\* plugin.init() of the plugin the init loop stands at.
CallInit ==
    /\ life.pc = "init"
    /\ life' = Advance(Called(life, "init"))
    /\ UNCHANGED <<managerVars, menus, plates>>

\* plugin.postInit?.() of the plugin the postInit loop stands at.
CallPostInit ==
    /\ life.pc = "postInit"
    /\ life' = Advance(IF life.conf[life.idx].postInit THEN Called(life, "postInit")
                       ELSE life)
    /\ UNCHANGED <<managerVars, menus, plates>>

\* plugin.start() of the plugin the start loop stands at.
CallStart ==
    /\ life.pc = "start"
    /\ life' = Advance(Called(life, "start"))
    /\ UNCHANGED <<managerVars, menus, plates>>

\* Mutant of Deliver: the hook is called with no catch around it, so a throw
\* ends the pass and reaches the orchestrator.
RECURSIVE DeliverUnguarded(_, _)
DeliverUnguarded(l, i) ==
    IF i > Len(l.registry) THEN l
    ELSE IF l.conf[i].hook = "none" THEN DeliverUnguarded(l, i + 1)
    ELSE IF l.conf[i].hook = "throws"
    THEN [l EXCEPT !.log = Append(@, <<"event", i>>), !.escaped = TRUE]
    ELSE DeliverUnguarded([l EXCEPT !.log = Append(@, <<"event", i>>)], i + 1)

\* One pass of the dispatch of an event, from plugin i on: every plugin with
\* a hook of the event's name is called in registry order; a throw is caught
\* and logged, and the pass goes on.
RECURSIVE Deliver(_, _)
Deliver(l, i) ==
    IF i > Len(l.registry) THEN l
    ELSE IF l.conf[i].hook = "none" THEN Deliver(l, i + 1)
    ELSE Deliver([l EXCEPT !.log = Append(@, <<"event", i>>)], i + 1)

\* The game raises the event while the plugins run.
Dispatch ==
    /\ life.pc = "running"
    /\ life.passes < MaxPasses
    /\ life' = Deliver([life EXCEPT !.passes = @ + 1,
                                    !.log = Append(@, <<"pass", 0>>)], 1)
    /\ UNCHANGED <<managerVars, menus, plates>>

NextLife ==
    \/ RegisterPlugin
    \/ HighliteStart
    \/ CallInit
    \/ CallPostInit
    \/ CallStart
    \/ Dispatch

InitLife ==
    /\ Manager(5)
    /\ menus = NoMenus
    /\ plates = NoPlates
    /\ \E conf \in [DOMAIN Registered -> LifeConfs] :
          life = [NoLife EXCEPT !.conf = conf, !.pc = "register"]

\* The loader, the orchestrator and the plugins' lifecycle.
SpecLife == InitLife /\ [][NextLife]_vars

(***************************************************************************)
(* The context menu actions.  document.client.get('VA') and                *)
(* document.client.get('QA') are the game's tables of entity actions and   *)
(* of inventory item actions: objects that map every action name to its    *)
(* number and every number to its name.                                    *)
(***************************************************************************)
\* The actions the game has in a table before any plugin adds one, in the
\* order of their numbers.
GameActions == <<"Attack", "Walk">>

\* The names the plugins add actions under; one of them is a name of the game.
ActionNames == {"Attack", "Lookup", "Wiki"}

\* The game's table of its first g actions.
GameTable(g) ==
    [names |-> [name \in {GameActions[j] : j \in 1..g} |->
                  2 * ((CHOOSE j \in 1..g : GameActions[j] = name) - 1)],
     nums |-> [n \in {2 * (j - 1) : j \in 1..g} |-> GameActions[(n \div 2) + 1]]]

\* Object.keys(ContextMenuActions).length / 2, as its double
HalfKeys(t) == Cardinality(DOMAIN t.names) + Cardinality(DOMAIN t.nums)

\* ContextMenuActions[ContextMenuActions[actionName] = length / 2] = actionName:
\* the number is computed first, then stored under the name, then the name is
\* stored under the number.
Entered(t, actionName) ==
    LET n == HalfKeys(t)
    IN  [names |-> [k \in DOMAIN t.names \cup {actionName} |->
                      IF k = actionName THEN n ELSE t.names[k]],
         nums |-> [k \in DOMAIN t.nums \cup {n} |->
                     IF k = n THEN actionName ELSE t.nums[k]]]

\* (Object.keys(ContextMenuActions).length / 2) - 1, as its double
ActionNumber(t) == HalfKeys(t) - 2

\* Mutant of EntityAction: the name is entered without a look at the table.
EntityActionUnchecked(t, actionName) ==
    [table |-> Entered(t, actionName), ret |-> ActionNumber(Entered(t, actionName))]

\* The body of AddEntityAction on the table t: the table afterwards and the
\* number returned.
EntityAction(t, actionName) ==
    IF actionName \in DOMAIN t.names
    THEN [table |-> t, ret |-> t.names[actionName]]
    ELSE [table |-> Entered(t, actionName), ret |-> ActionNumber(Entered(t, actionName))]

\* The body of AddInventoryItemAction on the table t.
InventoryItemAction(t, actionName) ==
    [table |-> Entered(t, actionName), ret |-> ActionNumber(Entered(t, actionName))]

\* AddEntityAction(actionName)
AddEntityAction(actionName) ==
    /\ menus.calls < MaxAdds
    /\ \E r \in {EntityAction(menus.VA, actionName)} :
          menus' = [menus EXCEPT !.VA = r.table, !.calls = @ + 1,
                                 !.call = [fn |-> "AddEntityAction",
                                           name |-> actionName, ret |-> r.ret]]
    /\ UNCHANGED <<managerVars, life, plates>>

\* AddInventoryItemAction(actionName)
AddInventoryItemAction(actionName) ==
    /\ menus.calls < MaxAdds
    /\ \E r \in {InventoryItemAction(menus.QA, actionName)} :
          menus' = [menus EXCEPT !.QA = r.table, !.calls = @ + 1,
                                 !.call = [fn |-> "AddInventoryItemAction",
                                           name |-> actionName, ret |-> r.ret]]
    /\ UNCHANGED <<managerVars, life, plates>>

NextMenus ==
    \/ \E actionName \in ActionNames : AddEntityAction(actionName)
    \/ \E actionName \in ActionNames : AddInventoryItemAction(actionName)

InitMenus ==
    /\ Manager(5)
    /\ life = NoLife
    /\ plates = NoPlates
    /\ \E g \in 0..Len(GameActions) : \E h \in 0..Len(GameActions) :
          menus = [NoMenus EXCEPT !.VA = GameTable(g), !.QA = GameTable(h)]

\* The plugins' calls that add context menu actions.
SpecMenus == InitMenus /\ [][NextMenus]_vars

(***************************************************************************)
(* The Nameplates plugin.  Players is the game's array of the other        *)
(* players in sight, NPCS its Map of the NPCs, both read from the          *)
(* EntityManager at every draw; PlayerDomElements and NPCDomElements hold  *)
(* the plugin's nameplates under the entity ids, given here by their keys. *)
(***************************************************************************)
EntityIds == 0..MaxEntityId

NpcIds == 0..(MaxNpcs - 1)

PlateSettings == {"enable", "playerNameplates", "npcNameplates", "youNameplate"}

\* The _entityId of every player of the array
PlayerIds(players) == {players[j] : j \in DOMAIN players}

\* Players[key]: the element of the array at the index key, counted from 0;
\* truthy where the array has one.
AtIndex(players, key) == key < Len(players)

\* NPCS[key]: a property of the Map object, not an entry of the Map; the Map
\* has no property under an entity id.
MapProperty(npcs, key) == FALSE

\* Lines 92-104: the NPC nameplates that are left after the clean-up.
ClearedNpcs(p) ==
    LET kept == IF p.NPCS = {} \/ ~p.enable \/ ~p.npcNameplates THEN {}
                ELSE p.NPCDomElements
    IN  {key \in kept : MapProperty(p.NPCS, key)}

\* Lines 107-120: the player nameplates that are left after the clean-up.
ClearedPlayers(p) ==
    LET kept == IF Len(p.Players) = 0 \/ ~p.enable \/ ~p.playerNameplates THEN {}
                ELSE p.PlayerDomElements
    IN  {key \in kept :
           ~(\/ ~AtIndex(p.Players, key) /\ key # p.MainPlayer
             \/ key = p.MainPlayer /\ ~p.youNameplate)}

\* Lines 126-234: the nameplates after the loops over the NPCs, the players
\* and the main player.
Drawn(p) ==
    [p EXCEPT !.NPCDomElements = IF p.npcNameplates THEN @ \cup p.NPCS ELSE @,
              !.PlayerDomElements =
                  (IF p.playerNameplates THEN @ \cup PlayerIds(p.Players) ELSE @)
                  \cup (IF p.youNameplate THEN {p.MainPlayer} ELSE {})]

\* GameLoop_draw()
GameLoop_draw ==
    /\ \E cleared \in {[plates EXCEPT !.NPCDomElements = ClearedNpcs(plates),
                                       !.PlayerDomElements = ClearedPlayers(plates),
                                       !.last = "GameLoop_draw"]} :
          plates' = IF ~cleared.enable THEN cleared ELSE Drawn(cleared)
    /\ UNCHANGED <<managerVars, life, menus>>

\* SocketManager_handleLoggedOut()
SocketManager_handleLoggedOut ==
    /\ plates' = [plates EXCEPT !.NPCDomElements = {}, !.PlayerDomElements = {},
                                !.last = "SocketManager_handleLoggedOut"]
    /\ UNCHANGED <<managerVars, life, menus>>

\* The game: a player comes into sight and is pushed to the array.
PlayerEnters(id) ==
    /\ Len(plates.Players) < MaxPlayers
    /\ id \notin PlayerIds(plates.Players) \cup {plates.MainPlayer}
    /\ plates' = [plates EXCEPT !.Players = Append(@, id), !.last = "enters"]
    /\ UNCHANGED <<managerVars, life, menus>>

\* The game: the player at place j leaves and is taken out of the array.
PlayerLeaves(j) ==
    /\ j \in DOMAIN plates.Players
    /\ plates' = [plates EXCEPT !.Players = SubSeq(@, 1, j - 1) \o SubSeq(@, j + 1, Len(@)),
                                !.last = "leaves"]
    /\ UNCHANGED <<managerVars, life, menus>>

\* The game: an NPC appears in the Map or goes from it.
NpcChanges(id) ==
    /\ plates' = [plates EXCEPT !.NPCS = IF id \in @ THEN @ \ {id} ELSE @ \cup {id},
                                !.last = "npc"]
    /\ UNCHANGED <<managerVars, life, menus>>

\* The user's toggle of one of the plugin's checkboxes.
PlateSetting(k) ==
    /\ plates' = [plates EXCEPT ![k] = ~@, !.last = "setting"]
    /\ UNCHANGED <<managerVars, life, menus>>

NextPlates ==
    \/ GameLoop_draw
    \/ SocketManager_handleLoggedOut
    \/ \E id \in EntityIds : PlayerEnters(id)
    \/ \E j \in 1..MaxPlayers : PlayerLeaves(j)
    \/ \E id \in NpcIds : NpcChanges(id)
    \/ \E k \in PlateSettings : PlateSetting(k)

InitPlates ==
    /\ Manager(5)
    /\ life = NoLife
    /\ menus = NoMenus
    /\ \E id \in EntityIds : plates = [NoPlates EXCEPT !.MainPlayer = id]

\* The Nameplates plugin in the game loop.
SpecPlates == InitPlates /\ [][NextPlates]_vars

(***************************************************************************)
(* Properties.                                                             *)
(***************************************************************************)
EditHandlers == {"checkbox", "range", "color", "text"}

HasBounds(s) == ~IsNaN(s.min) /\ ~IsNaN(s.max)

\* min <= c <= max, as numbers.
WithinBounds(s, c) == ~IsNaN(c) /\ s.min.n <= c.n /\ c.n <= s.max.n

\* c fails validation: the validator returns false for it, or it is a number
\* below min or above max.
FailsValidation(s, c) ==
    \/ s.hasValidation /\ c \in s.rejects
    \/ s.type = "range" /\ HasBounds(s) /\ ~IsNaN(c) /\ (c.n < s.min.n \/ c.n > s.max.n)

\* What the control of a setting of kind s.type shows for the value v.
Displayed(s, v) ==
    CASE s.type = "checkbox" -> Bool(Truthy(v))
      [] s.type = "range" -> NumberInput(v)
      [] OTHER -> v

\* C1: a checkbox, range, color or text write whose candidate fails validation
\* changes no setting value, calls no callback, issues no store write and leaves
\* the manager's copy and the stored record as they were.
C1_RejectedWriteIsNoOp ==
    [][(/\ act'.name \in EditHandlers
        /\ FailsValidation(Setting(act'.p, act'.k), act'.cand))
       => /\ value' = value
          /\ act'.hooks = {}
          /\ ~act'.put
          /\ storeQueue' = storeQueue
          /\ databaseSettings' = databaseSettings
          /\ db' = db]_vars

\* C1 witness: a range edit with a candidate above max has just been handled.
C1_Witness ==
    /\ act.name = "range"
    /\ act.cand = Num(11)
    /\ FailsValidation(Setting(act.p, act.k), act.cand)

\* C2: an edit of a range setting with min and max (whose validator, if any, does
\* not reject the candidate) is accepted, the value updated, the callback called
\* and the snapshot put, iff min <= candidate <= max; otherwise nothing changes.
C2_RangeAcceptedIffWithinBounds ==
    [][(/\ act'.name = "range"
        /\ HasBounds(Setting(act'.p, act'.k))
        /\ act'.cand \notin Setting(act'.p, act'.k).rejects)
       => IF WithinBounds(Setting(act'.p, act'.k), act'.cand)
          THEN /\ value'[act'.p][act'.k] = act'.cand
               /\ <<act'.p, act'.k, "callback">> \in act'.hooks
               /\ act'.put
          ELSE /\ value' = value
               /\ act'.hooks = {}
               /\ storeQueue' = storeQueue]_vars

\* C3: when registerPlugins loads the record again and no write is in flight
\* (every write made so far has completed), every setting keeps the value it
\* had, a value written by the user included.
C3_WriteThenReload ==
    [][(act'.name = "load" /\ runs > 1 /\ Tail(storeQueue) = <<>>) => value' = value]_vars

\* C3 witness: the record was loaded again after the user had set vol to 10 (the
\* constructor gives 5 and the initial records 0).
C3_Witness ==
    /\ cfg = 1
    /\ act.name = "load"
    /\ runs = 2
    /\ value[1]["vol"] = Num(10)

\* C4: when a store write of a plugin's settings completes, every other plugin
\* name of the stored record keeps its sub-record, keys and values.
C4_Partitioning ==
    [][act'.name = "storeCommit"
       => \A n \in DOMAIN db.rec :
             n # pluginList[act'.p].pluginName
             => n \in DOMAIN db'.rec /\ db'.rec[n] = db.rec[n]]_vars

\* C5: once registerPlugins has returned, the value of a single-choice setting
\* is one of its choices, and the stored record holds that value.
C5_SelfHealedAfterReconciliation ==
    regPc = "done" =>
        \A i \in Plugins : \A k \in Keys(i) :
            (Setting(i, k).type = "combobox" /\ HasSelect(Setting(i, k)))
            => /\ ~NotAChoice(Setting(i, k), value[i][k])
               /\ db.has
               /\ db.rec[pluginList[i].pluginName][k] = value[i][k]

\* C6: a run of registerPlugins that starts from the state its previous run left,
\* with nothing else acting, returns with the same setting values and the same
\* stored record.
C6_ReconciliationIdempotent ==
    [][(act'.name = "registered" /\ lastDone.valid)
       => (value' = lastDone.value /\ db' = lastDone.db)]_vars

\* C6 witness: registerPlugins has returned a second time, the second run having
\* started from what the first one left.
C6_Witness ==
    /\ act.name = "registered"
    /\ runs = 2
    /\ lastDone.again

\* C7: once registerPlugins has returned and no store write is in flight, the
\* stored sub-record of every registered plugin has exactly the plugin's keys,
\* each with the live value.
C7_SnapshotOfEveryPlugin ==
    (regPc = "done" /\ storeQueue = <<>>) =>
        \A i \in Plugins :
            /\ db.has
            /\ pluginList[i].pluginName \in DOMAIN db.rec
            /\ db.rec[pluginList[i].pluginName] = [k \in Keys(i) |-> value[i][k]]

\* C7 witness: registerPlugins has returned for a user who had no record.
C7_Witness ==
    /\ cfg = 3
    /\ runs = 1
    /\ regPc = "done"
    /\ storeQueue = <<>>
    /\ db.has

\* C8: a single-choice pick that the setting's validator rejects changes no
\* value, calls no callback and issues no store write.
C8_ComboboxValidated ==
    [][(/\ act'.name = "combobox"
        /\ Setting(act'.p, act'.k).hasValidation
        /\ act'.cand \in Setting(act'.p, act'.k).rejects)
       => /\ value' = value
          /\ act'.hooks = {}
          /\ storeQueue' = storeQueue]_vars

\* C9: after a write that failed validation, out of bounds included, the
\* control shows the setting's value.
C9_DisplayRestored ==
    (/\ act.name \in EditHandlers
     /\ FailsValidation(Setting(act.p, act.k), act.cand))
    => shown[act.k] = Displayed(Setting(act.p, act.k), value[act.p][act.k])

\* C10: every store write puts the record the store holds at that time (after
\* the writes in flight) with only the owning plugin's key replaced.
C10_ReadModifyWrite ==
    [][act'.put
       => LET put == storeQueue'[Len(storeQueue')]
              before == PendingPuts(storeQueue)
              stored == IF before = <<>> THEN db.rec ELSE before[Len(before)].rec
          IN \A n \in DOMAIN stored :
                n # pluginList[put.owner].pluginName
                => n \in DOMAIN put.rec /\ put.rec[n] = stored[n]]_vars

\* The tasks queued by the step.
Queued == SubSeq(timers', Len(timers) + 1, Len(timers'))

\* The step is an assignment to hidden or disabled of a setting other than
\* enable, of a plugin whose settings makeSettingsReactive has wrapped.
ReactiveWrite ==
    /\ act'.name \in {"hidden", "disabled"}
    /\ act'.k # "enable"
    /\ proxies[act'.p] >= 1

\* C11: a write to hidden (disabled) of a non-enable setting of a reconciled
\* plugin queues a visibility (disabled-state) refresh of that plugin when it
\* changes the field's value, and queues nothing when it assigns the value the
\* field already has.
C11_RefreshQueuedIffChanged ==
    [][ReactiveWrite
       => /\ SubSeq(timers', 1, Len(timers)) = timers
          /\ IF flags[act'.p][act'.k][act'.name] # act'.cand
             THEN /\ Queued # <<>>
                  /\ \A n \in DOMAIN Queued :
                        Queued[n] = Timer(RefreshOf(act'.name), act'.p, "", 0)
             ELSE Queued = <<>>]_vars

\* A changing write of hidden has queued its refresh, and a write of the value
\* disabled already had is the last step, with nothing queued for it.
C11_Witness ==
    /\ act.name = "disabled"
    /\ proxies[act.p] >= 1
    /\ flags[act.p][act.k].disabled = act.cand
    /\ timers = <<Timer("visibility", act.p, "", 0)>>

\* C12: a write to hidden or disabled runs no refresh itself: when it returns
\* the field holds the new value and no row of the view has changed; rows
\* change for it only when a queued task runs.
C12_RefreshDeferred ==
    [][ReactiveWrite
       => /\ flags'[act'.p][act'.k][act'.name] = act'.cand
          /\ ui' = ui]_vars

\* The view is open, disabled has just been set on a setting whose row is
\* still enabled, and the refresh is waiting in the queue.
C12_Witness ==
    /\ act.name = "disabled"
    /\ act.k \in DOMAIN ui
    /\ proxies[act.p] >= 1
    /\ Truthy(flags[act.p][act.k].disabled)
    /\ ~ui[act.k].disabled
    /\ \E n \in DOMAIN timers : timers[n].kind = "disabled"

\* The step is the return of the store write a change handler of the open
\* view awaited: the handler runs what follows its await.
HandlerResumes ==
    /\ storeQueue # <<>>
    /\ Head(storeQueue).kind = "put"
    /\ Head(storeQueue).by = "user"
    /\ Head(storeQueue).owner = currentView
    /\ act'.name = "storeCommit"

\* C13: when the handler of an accepted write has run to its end, every row of
\* the plugin's view shows the setting's disabled state and its hidden state:
\* its controls are disabled iff disabled is truthy, a hidden row is faded out
\* and a row that is not hidden is displayed.
C13_HiddenAndDisabledReevaluated ==
    [][HandlerResumes
       => \A k \in DOMAIN ui' :
            /\ HasInput(Setting(currentView, k))
                 => ui'[k].disabled = Truthy(flags'[currentView][k].disabled)
            /\ IF Truthy(flags'[currentView][k].hidden) THEN ~ui'[k].opaque
               ELSE ui'[k].display]_vars

\* C14: a click on a plugin's enable toggle sets settings.enable.value to the
\* toggle's state, whatever a validator of the setting would say, calls the
\* enable callback of that plugin and puts the record with the plugin's
\* snapshot; it queues no refresh, changes no row of a detail view and leaves
\* no refresh to run when the write returns.
C14_EnableToggle ==
    [][act'.name = "enable"
       => LET put == storeQueue'[Len(storeQueue')]
          IN /\ value'[act'.p]["enable"] = act'.cand
             /\ <<act'.p, "enable", "callback">> \in act'.hooks
             /\ Len(storeQueue') = Len(storeQueue) + 1
             /\ put.kind = "put"
             /\ put.rec[pluginList[act'.p].pluginName] = Snapshot(value', act'.p)
             /\ put.then = {}
             /\ timers' = timers
             /\ ui' = ui
             /\ flags' = flags]_vars

\* The toggle of a plugin whose enable setting has a validator was switched to
\* a state the validator rejects, and the value is that state.
C14_Witness ==
    /\ act.name = "enable"
    /\ Setting(act.p, "enable").hasValidation
    /\ act.cand \in Setting(act.p, "enable").rejects
    /\ value[act.p]["enable"] = act.cand
    /\ storeQueue # <<>>

\* C15: once registerPlugins has returned, every plugin has a setting enable
\* whose value is a boolean, and enable has no row in a detail view and no
\* proxy around it.
C15_EnableIsBooleanWithoutRow ==
    regPc = "done"
    => \A i \in Plugins :
         /\ "enable" \in DOMAIN value[i]
         /\ value[i]["enable"].t = "boolean"
         /\ "enable" \notin DOMAIN ui
         /\ "enable" \notin DOMAIN shown
         /\ Layers(proxies, i, "enable") = 0

\* typeof value a setting of the given kind requires; a button carries no value.
RequiredType(type) ==
    CASE type = "checkbox" -> {"boolean"}
      [] type = "range" -> {"number"}
      [] type \in {"color", "text", "combobox"} -> {"string"}
      [] OTHER -> {"boolean", "number", "string"}

\* C20: once registerPlugins has returned, the value of every setting has the
\* type its kind requires: a boolean for a checkbox, a number for a range, a
\* string for a color, a text and a combobox.
C20_ValueTypeMatchesKind ==
    regPc = "done"
    => \A i \in Plugins : \A k \in Keys(i) :
         value[i][k].t \in RequiredType(Setting(i, k).type)

\* The term is empty or, letter case aside, a substring of the plugin's name
\* or of its author.
NameOrAuthorHas(i, term) ==
    \/ term = <<>>
    \/ Includes(ToLowerCase(pluginList[i].nameText), ToLowerCase(term))
    \/ Includes(ToLowerCase(pluginList[i].author), ToLowerCase(term))

\* C16: after the list was filtered by a term, the rows of a plugin are
\* displayed iff the term is empty or a case-insensitive substring of the
\* plugin's name or author, and hidden otherwise.
C16_FilterByNameOrAuthor ==
    act.name = "filter"
    => \A term \in act.hooks : \A i \in Plugins :
         listed[i] # {} => listed[i] = {NameOrAuthorHas(i, term)}

\* The record holds a value for the key k of a plugin named as plugin i.
InRecord(r, i, k) ==
    /\ r.has
    /\ pluginList[i].pluginName \in DOMAIN r.rec
    /\ k \in DOMAIN r.rec[pluginList[i].pluginName]

\* C17: the load loop of registerPlugins runs to its end whatever names and
\* keys the record holds: the plugins keep exactly their own settings, and a
\* setting changes or has its onLoaded called only when the record holds a
\* value under its plugin's name and its key.
C17_UnmatchedIgnored ==
    [][act'.name = "load"
       => /\ regPc' = "put"
          /\ DOMAIN value' = Plugins
          /\ \A i \in Plugins :
               /\ DOMAIN value'[i] = Keys(i)
               /\ \A k \in Keys(i) :
                    ~InRecord(db, i, k)
                    => /\ value'[i][k] = value[i][k]
                       /\ <<i, k, "onLoaded">> \notin act'.hooks]_vars

\* The load loop has run over a record with a plugin name that is not
\* registered and a key the registered plugin does not have.
C17_Witness ==
    /\ act.name = "load"
    /\ regPc = "put"
    /\ \E n \in DOMAIN db.rec : FindPlugin(n) = 0
    /\ \E i \in Plugins :
         /\ pluginList[i].pluginName \in DOMAIN db.rec
         /\ \E k \in DOMAIN db.rec[pluginList[i].pluginName] : k \notin Keys(i)

C19_FailureDoesNotBlockOthers ==
    regPc = "failed"
    => \A i \in Plugins \ {regIdx} :
         /\ databaseSettings.has
         /\ pluginList[i].pluginName \in DOMAIN databaseSettings.rec
         /\ proxies[i] >= 1
         /\ listed[i] # {}
         /\ rows[i] # NoRows

\* The plugin has a setting other than enable whose type is unsupported.
HasUnsupported(i) ==
    \E k \in Keys(i) \ {"enable"} : Setting(i, k).type \notin SettingsTypes

\* C21: opening the detail view of a plugin that has a non-enable setting of
\* an unsupported type throws in that very call, which installs no detail
\* view; and the step after a call that threw is never another call of
\* openPluginSettings.
C21_UnsupportedKindThrows ==
    [][/\ (act'.name = "open" /\ HasUnsupported(act'.p))
           => (act'.cand = UnsupportedType /\ currentView' \notin Plugins)
       /\ (act.name = "open" /\ act.cand = UnsupportedType)
           => act'.name # "open"]_vars

\* openPluginSettings has thrown on the setting odd, after it had built the
\* row of the setting before it.
C21_Witness ==
    /\ act.name = "open"
    /\ act.cand = UnsupportedType
    /\ HasUnsupported(act.p)
    /\ value[act.p]["mode"] = Str("a")
    /\ currentView = 0 - 1

\* C22: a press of the button of a setting calls the setting's callback for
\* the plugin, whatever its validator and bounds say, and leaves the values
\* of the plugin's settings as they were.
C22_ButtonCallsCallback ==
    [][act'.name = "button"
       => /\ <<act'.p, act'.k, "callback">> \in act'.hooks
          /\ value' = value]_vars

\* The button of a setting whose validator rejects the setting's value was
\* pressed and its callback was called.
C22_Witness ==
    /\ act.name = "button"
    /\ ValidationRejects(Setting(act.p, act.k), value[act.p][act.k])
    /\ <<act.p, act.k, "callback">> \in act.hooks

\* The places of the log where the lifecycle method was called.
CallsOf(what) == {n \in DOMAIN life.log : life.log[n][1] = what}

\* C23: every call of postInit comes before every call of start, no start is
\* called while a plugin that has postInit still waits for it, and init is
\* called on the plugins in the order in which they were registered.
C23_PostInitBeforeStart ==
    /\ \A m \in CallsOf("postInit") : \A n \in CallsOf("start") : m < n
    /\ CallsOf("start") # {}
         => \A i \in DOMAIN life.registry :
              life.conf[i].postInit
              => \E m \in CallsOf("postInit") : life.log[m][2] = i
    /\ \A m, n \in CallsOf("init") : m < n => life.log[m][2] < life.log[n][2]
    /\ \A m \in CallsOf("init") : life.registry[life.log[m][2]] = Registered[life.log[m][2]]

\* start has been called on the first plugin after postInit was called on the
\* last plugin, which has it.
C23_Witness ==
    /\ CallsOf("start") # {}
    /\ life.conf[Len(Registered)].postInit
    /\ \E m \in CallsOf("postInit") : life.log[m][2] = Len(Registered)
    /\ Cardinality(CallsOf("init")) = Len(Registered)

\* The calls of the hooks made in the last pass of the log.
LastPass ==
    LET from == CHOOSE n \in CallsOf("pass") : \A m \in CallsOf("pass") : m <= n
    IN {life.log[n][2] : n \in {m \in CallsOf("event") : m > from}}

\* C24: in every dispatch pass each plugin that has a hook for the event is
\* called, also the plugins registered after one whose hook throws, and no
\* error reaches the orchestrator.
C24_DispatchIsolation ==
    CallsOf("pass") # {}
    => /\ LastPass = {i \in DOMAIN life.registry : life.conf[i].hook # "none"}
       /\ ~life.escaped

\* An event was dispatched where the hook of the first plugin throws and a
\* plugin registered after it has a hook, which was called.
C24_Witness ==
    /\ CallsOf("pass") # {}
    /\ life.conf[1].hook = "throws"
    /\ life.conf[2].hook = "ok"
    /\ 2 \in LastPass

\* A checkbox, range, color, text or single-choice handler applied its input.
AcceptedEdit == act'.name \in EditHandlers \cup {"combobox"} /\ act'.put

\* The put the handler that ran last has queued.
LastPut == storeQueue'[Len(storeQueue')]

\* C25: when a handler accepts a write, the setting's value is set first, the
\* callback then runs once and sees the new value, and the snapshot written
\* afterwards holds the new value and the values the callback has written.
C25_ValueCallbackStore ==
    [][AcceptedEdit =>
         /\ <<act'.p, act'.k, "callback">> \in act'.hooks
         /\ value'[act'.p][act'.k] = act'.cand
         /\ Setting(act'.p, act'.k).effect.field = "value" =>
               /\ value'[act'.p][Setting(act'.p, act'.k).effect.k] = act'.cand
               /\ value'[act'.p][Setting(act'.p, act'.k).effect.tally].n
                    = (value[act'.p][Setting(act'.p, act'.k).effect.tally].n + 1) % (MaxCalls + 1)
         /\ Len(storeQueue') = Len(storeQueue) + 1
         /\ LastPut.rec[pluginList[act'.p].pluginName] = Snapshot(value', act'.p)]_vars

\* The callback's own writes are in the queued snapshot.
C25_Witness ==
    /\ act.name = "checkbox" /\ act.put /\ act.k = "chk"
    /\ value[act.p]["copy"] = act.cand
    /\ value[act.p]["count"] = Num(2)
    /\ storeQueue # <<>>
    /\ storeQueue[Len(storeQueue)].kind = "put"
    /\ storeQueue[Len(storeQueue)].rec["Alpha"]["count"] = Num(2)

\* The single-choice settings of plugin i whose select is built while their
\* value is none of the choices.
Normalized(i) ==
    { k \in Keys(i) \ {"enable"} :
        /\ Setting(i, k).type = "combobox"
        /\ HasSelect(Setting(i, k))
        /\ NotAChoice(Setting(i, k), value[i][k]) }

StartupPuts ==
    { n \in DOMAIN storeQueue : storeQueue[n].kind = "put" /\ storeQueue[n].by = "reg" }

\* C27: registerPlugins has at most one store write under way, that of the
\* plugin its loop stands at; the plugins before that one have their proxies
\* and row of this run, and that plugin and those after it have not.
C27_StartupSerialized ==
    /\ Cardinality(StartupPuts) <= 1
    /\ \A n \in StartupPuts : regPc = "put" /\ storeQueue[n].owner = regIdx
    /\ regPc = "put" =>
          \A j \in Plugins :
             /\ proxies[j] = IF j < regIdx THEN runs ELSE runs - 1
             /\ rows[j].on + rows[j].off = IF j < regIdx THEN runs ELSE runs - 1

\* The second plugin's write is under way: the first has its proxies and row,
\* the second has none yet.
C27_Witness ==
    /\ regPc = "put" /\ regIdx = 2
    /\ StartupPuts # {}
    /\ proxies[1] = 1 /\ proxies[2] = 0
    /\ rows[2] = NoRows

\* C28: once no task is pending, every row of the open detail view is laid
\* out exactly when its setting's hidden field is not truthy.
C28_RowFollowsHidden ==
    (currentView \in Plugins /\ timers = <<>>) =>
        \A k \in DOMAIN ui : ui[k].display <=> ~Truthy(flags[currentView][k].hidden)

\* C29: a call of toggleSettingVisibility for a setting of a registered plugin
\* leaves the setting's hidden field at the forced state, or at the negation
\* of what it was; a call for an unknown plugin or key changes no setting.
C29_ToggleSetsHidden ==
    [][act'.name = "toggleVisibility" =>
         IF act'.p # 0 /\ act'.k \in Keys(act'.p)
         THEN flags'[act'.p][act'.k].hidden
                = IF act'.cand # Undefined THEN act'.cand
                  ELSE Bool(~Truthy(flags[act'.p][act'.k].hidden))
         ELSE flags' = flags /\ value' = value]_vars

\* C30: after updatePluginSettingsUI for the plugin whose detail view is open,
\* the control of every checkbox, range, color, text and single-choice setting
\* of the plugin shows the setting's value.
C30_UpdateShowsValues ==
    [][(act'.name = "updateUI" /\ currentView = act'.p) =>
         \A k \in DOMAIN shown' :
            shown'[k] = Displayed(Setting(act'.p, k), value'[act'.p][k])]_vars

\* C31: a refresh of the visibility or of the disabled state that was queued
\* for plugin P changes no row while the open detail view is that of another
\* plugin.
C31_RefreshOwnRowsOnly ==
    [][(/\ act'.name = "timer"
        /\ act'.cand \in {Str("visibility"), Str("disabled")}
        /\ currentView \in Plugins
        /\ currentView # act'.p)
       => ui' = ui]_vars

\* The record holds, for every registered plugin, the snapshot of its live values.
HoldsLiveValues(rec) ==
    \A i \in Plugins :
        /\ pluginList[i].pluginName \in DOMAIN rec
        /\ rec[pluginList[i].pluginName] = Snapshot(value, i)

\* C32: after registerPlugins has returned, whatever writes of the handlers
\* are outstanding, the write issued last carries the live values of every
\* plugin; and the store, which serves the writes in the order of their
\* issue, holds them once the last outstanding write has completed.
C32_LastWriteCarriesLiveValues ==
    /\ [](regPc = "done" /\ storeQueue # <<>>
            => HoldsLiveValues(storeQueue[Len(storeQueue)].rec))
    /\ [][(regPc = "done" /\ storeQueue # <<>> /\ storeQueue' = <<>>)
            => (db'.has /\ db'.rec = Head(storeQueue).rec /\ Len(storeQueue) = 1)]_vars

\* Writes of handlers of two plugins are outstanding together, and the one
\* issued last carries the user's values of both.
C32_Witness ==
    /\ regPc = "done"
    /\ Len(storeQueue) = 2
    /\ storeQueue[1].by = "user" /\ storeQueue[2].by = "user"
    /\ storeQueue[1].owner # storeQueue[2].owner
    /\ storeQueue[1].rec # storeQueue[2].rec
    /\ HoldsLiveValues(storeQueue[2].rec)

\* C33: the panel container holds exactly one view, the one this.currentView
\* refers to.
C33_OneViewInPanel == PanelViews = {CurrentViewField}

\* The disabled field of settings[k] of the viewed plugin is truthy, and every
\* refresh of the disabled state that was asked for has run.
DisabledAndRefreshed(k) ==
    /\ Truthy(flags[currentView][k].disabled)
    /\ \A n \in DOMAIN timers : timers[n].kind # "disabled"

\* C34: while a setting of the viewed plugin is disabled, at render time or
\* after the refresh of the disabled state, no handler of its control changes
\* a value or calls a callback.
C34_DisabledBlocksInput ==
    [][\A k \in (IF currentView \in Plugins THEN DOMAIN ui ELSE {}) :
          DisabledAndRefreshed(k) =>
             ~(/\ act'.name \in EditHandlers \cup {"combobox", "button"}
               /\ act'.p = currentView
               /\ act'.k = k
               /\ (value' # value \/ act'.hooks # {}))]_vars

\* C35: the value of every range setting that has a min and a max, and the
\* value the store holds for it, is a number from min to max, never NaN.
C35_RangeValueWithinBounds ==
    \A i \in Plugins : \A k \in Keys(i) :
        (Setting(i, k).type = "range" /\ HasBounds(Setting(i, k))) =>
            /\ WithinBounds(Setting(i, k), value[i][k])
            /\ (/\ db.has
                /\ pluginList[i].pluginName \in DOMAIN db.rec
                /\ k \in DOMAIN db.rec[pluginList[i].pluginName])
               => WithinBounds(Setting(i, k), db.rec[pluginList[i].pluginName][k])

\* C36: updatePluginSettingsUI for a plugin other than the one whose detail
\* view is open, or while the plugin list is shown, changes no control.
C36_UpdateOnlyOwnView ==
    [][(act'.name = "updateUI" /\ currentView # act'.p) => shown' = shown]_vars

\* The double n stands for a whole number that is not negative.
IsNatural(n) == n >= 0 /\ n % 2 = 0

\* The table maps its names one to one onto the numbers 0, 1, 2, ... and maps
\* every number back to its name.
IsBijection(t) ==
    /\ DOMAIN t.nums = {2 * j : j \in 0..(Cardinality(DOMAIN t.names) - 1)}
    /\ \A name \in DOMAIN t.names :
          t.names[name] \in DOMAIN t.nums /\ t.nums[t.names[name]] = name
    /\ \A n \in DOMAIN t.nums :
          t.nums[n] \in DOMAIN t.names /\ t.names[t.nums[n]] = n

\* C37: after every call of AddInventoryItemAction(name), whether the name
\* is new or repeated, the number returned is a whole number that is not
\* negative, the table holds the number under the name and the name under the
\* number, and the table is a bijection between its names and the numbers
\* 0, 1, 2, ... without a gap.
C37_InventoryTableBijection ==
    menus.call.fn = "AddInventoryItemAction"
    => /\ IsNatural(menus.call.ret)
       /\ menus.call.name \in DOMAIN menus.QA.names
       /\ menus.QA.names[menus.call.name] = menus.call.ret
       /\ menus.call.ret \in DOMAIN menus.QA.nums
       /\ menus.QA.nums[menus.call.ret] = menus.call.name
       /\ IsBijection(menus.QA)

\* C38: a call of AddEntityAction(name) with a name the table lacks returns
\* the number of actions the table held, and afterwards the table holds that
\* number under the name and the name under that number; a call with a name
\* the table holds returns the number held under it and leaves the table as
\* it was.
C38_EntityActionIdempotent ==
    [][menus'.call.fn = "AddEntityAction" /\ menus'.calls # menus.calls
       => IF menus'.call.name \in DOMAIN menus.VA.names
          THEN /\ menus'.call.ret = menus.VA.names[menus'.call.name]
               /\ menus'.VA = menus.VA
          ELSE /\ menus'.call.ret = 2 * Cardinality(DOMAIN menus.VA.names)
               /\ menus'.VA.names[menus'.call.name] = menus'.call.ret
               /\ menus'.VA.nums[menus'.call.ret] = menus'.call.name]_vars

\* C38 witness: AddEntityAction has just returned a number that is not the
\* last of the table, for a name a plugin had added before: a later call with
\* the same name.
C38_Witness ==
    /\ menus.call.fn = "AddEntityAction"
    /\ menus.call.name \notin {GameActions[j] : j \in DOMAIN GameActions}
    /\ menus.call.name \in DOMAIN menus.VA.names
    /\ menus.call.ret = menus.VA.names[menus.call.name]
    /\ menus.call.ret < HalfKeys(menus.VA) - 2

\* C39: after every GameLoop_draw each nameplate of PlayerDomElements is
\* that of a player of the Players array or that of the main player while
\* youNameplate is on, so that the nameplate of a player who has left is gone
\* after the next draw; and while enable is off no nameplate is left, neither
\* of an NPC nor of a player.
C39_NameplatesFollowPlayers ==
    plates.last = "GameLoop_draw"
    => /\ \A key \in plates.PlayerDomElements :
             \/ key \in PlayerIds(plates.Players)
             \/ key = plates.MainPlayer /\ plates.youNameplate
       /\ ~plates.enable
            => plates.PlayerDomElements = {} /\ plates.NPCDomElements = {}

====
